---- MODULE Spec2Model ----
(***************************************************************************)
(* chop-shop: the step sequencer page (src/app/sequence/page.tsx), the     *)
(* per-sample effects chain (src/app/samples/page.tsx and the sequencer's  *)
(* copy) and the audio editor (src/components/AudioEditor.tsx), as state   *)
(* machines.                                                               *)
(*                                                                         *)
(* A React handler is one action: the state update, the re-render and the  *)
(* effects that the re-render runs are taken together.  What the code      *)
(* leaves to the event loop is a separate action: the resolution of an     *)
(* awaited promise, a setTimeout callback, a Tone.Sequence callback, a     *)
(* Tone.Draw callback.  A callback carries the values its closure captured *)
(* when it was created.                                                    *)
(*                                                                         *)
(* Audio time is counted in units of 1/32 s (31.25 ms).                    *)
(***************************************************************************)
EXTENDS Integers, Sequences, FiniteSets, TLC

VARIABLES
    \* ---- sequencer page: React state
    mounted,        \* the page component is mounted
    isPlaying, bpm, stepCount, subdivision, currentStep,
    samples,        \* AudioSample ids of the loaded project, in order
    grid,           \* sample id -> boolean step array
    \* ---- sequencer page: refs and Tone.js objects
    ToneRef,        \* TRUE once import('tone') has resolved
    sequenceRef,    \* id of the Tone.Sequence in sequenceRef.current, 0 = null
    samplesRef, gridRef,
    sequences,      \* every Tone.Sequence created so far: id -> record
    transport,      \* Tone.Transport: state, bpm, audio time of position 0
    \* ---- sequencer page: work left to the event loop
    pendingLoads,   \* loadSamples calls awaiting getSamplesByProject
    restartTimers,  \* setTimeout(() => startSequencer(), 100), oldest first
    pendingStarts,  \* startSequencer calls awaiting Tone.start(), oldest first
    drawQueue,      \* callbacks given to Tone.Draw.schedule, not yet run
    decoding,       \* playSample calls awaiting decodeAudioData
    \* ---- audio clock and instrumentation
    now,            \* audio time
    horizon,        \* audio time at which the clock of this run stops
    lastTrig,       \* sample id -> the last playback event scheduled for it
    trigGap,        \* sample id -> audio time between its last two events
    loopTrigs,      \* sample id -> events scheduled in the current loop pass
    passDone,       \* sample id -> events scheduled in the last complete pass
    lastStep,       \* the last sequence callback: sequence, step, time, time
                    \* since the callback before it, samples scheduled
    lastStart,      \* the last source.start(): what was due when, and when it ran
    userStopped,    \* Stop was pressed or the page left, and Play was not
                    \* pressed since
    edits,          \* toggleStep / clearPattern calls so far
    sampleEffects,  \* sequencer page: sample id -> SampleEffects record
    \* ---- effects chain
    effects,        \* the SampleEffects record buildEffectsChain finds
    channels,       \* channels of the decoded buffer: 1 mono, 2 stereo
    chain,          \* the graphs the two buildEffectsChain copies built last
    \* ---- audio editor: React state of one edit session
    audioBuffer,    \* the working buffer: channels of samples, <<>> = null
    startTime, endTime, volume, pitchSemitones, pitchCents,
    fadeInDuration, fadeOutDuration, timeStretch,
    originalValues, \* <<>> = null, else <<the record revert restores>>
    selectionStart, selectionEnd,   \* Null or a time
    isSelecting,
    clipboard,      \* the clipboard buffer, <<>> = null
    draggingMarker, \* "start", "end" or "null"
    \* ---- audio editor: instrumentation
    lastOp,         \* the last handler that ran and how it ended (a cut
                    \* that went through also records the buffer it cut)
    gestures,       \* mouse presses on the waveform so far
    bufferOps,      \* cut / copy / paste calls so far
    settings,       \* slider, trim input, normalize and revert calls so far
    \* ---- audio editor: auto-save
    isOpen,         \* the samples page has the editor mounted
    isSaving,
    timers,         \* pending setTimeout callbacks: id, half-seconds left,
                    \* and what the callback's closure holds
    autoSaveTimeoutRef, \* Null or the id of the timer set last
    rendering,      \* closures of handleAutoSave calls awaiting startRendering
    saved,          \* <<>> or <<what onSave was last called with>>
    stored,         \* <<>> or <<the record handleSaveEditedSample last wrote>>
    listed,         \* <<>> or <<the record the samples list last reloaded>>
    idle,           \* half-seconds since a parameter last changed, capped
    \* ---- WAV encoders
    wavIn,          \* <<>> or <<encoder, sample rate, buffer>>
    wavOut,         \* the bytes of the blob the encoder returned
    \* ---- MIDI service
    noteCallbacks,  \* the registered callbacks
    isLearningMode,
    learnCallback,  \* Null or the callback listenForNote waits with
    midiCalls,      \* the calls the last handleMIDIMessage made
    \* ---- MIDI mappings
    localStorage,   \* per project, the mappings stored under midi_<project>
    mapOp,          \* the last call made to MIDIStorage
    \* ---- sample store
    dbSample,       \* what IndexedDB holds for the sample under edit, next
                    \* to its blob and duration: id, project, name, note
    \* ---- effects panel
    panelPage,      \* the page whose effects panel is shown
    panelEffects,   \* the sampleEffects Map: sample id -> settings object
    fxHeap,         \* the nested objects (reverb, delay, ...) by reference
    selectedEffectsSample,  \* samples page: the sample the panel is open on
    panelOp,        \* the sample the last panel update was addressed to
    fxUpdates,      \* panel updates so far
    \* ---- metronome
    metMounted,     \* the Metronome component is mounted
    isEnabled, metBpm, tapTimes,
    tapTimeoutRef,  \* when the pending tap timeout is due, Null = none
    dateNow,        \* Date.now()
    taps,           \* presses of the tap button so far
    ctxState,       \* audioContextRef.current.state
    resumes,        \* pending resume().then continuations, oldest first
    intervals,      \* the setInterval timers that are active
    intervalRef,    \* intervalRef.current, Null = null
    metClick        \* the last click played: "on", "off" or "none"

seqVars == <<mounted, isPlaying, bpm, stepCount, subdivision, currentStep,
             samples, grid, ToneRef, sequenceRef, samplesRef, gridRef,
             sequences, transport, pendingLoads, restartTimers, pendingStarts,
             drawQueue, decoding, now, horizon, lastTrig, trigGap, loopTrigs,
             passDone, lastStep, lastStart,
             userStopped, edits, sampleEffects>>
fxVars == <<effects, channels, chain>>
edVars == <<audioBuffer, startTime, endTime, volume, pitchSemitones,
            pitchCents, fadeInDuration, fadeOutDuration, timeStretch,
            originalValues, selectionStart, selectionEnd, isSelecting,
            clipboard, draggingMarker, lastOp, gestures, bufferOps, settings>>
saveRest == <<isOpen, isSaving, rendering, saved, stored, listed>>
saveVars == <<saveRest, timers, autoSaveTimeoutRef, idle>>
wavVars == <<wavIn, wavOut>>
midiVars == <<noteCallbacks, isLearningMode, learnCallback, midiCalls>>
mapVars == <<localStorage, mapOp>>
dbVars == <<dbSample>>
panelVars == <<panelPage, panelEffects, fxHeap, selectedEffectsSample,
               panelOp, fxUpdates>>
tapVars == <<tapTimes, tapTimeoutRef, dateNow, taps>>
metVars == <<metMounted, isEnabled, metBpm, tapVars, ctxState, resumes,
             intervals, intervalRef, metClick>>
auxVars == <<mapVars, dbVars, panelVars, metVars>>
coreVars == <<seqVars, fxVars, edVars, saveVars, wavVars, midiVars>>
otherVars == <<wavVars, midiVars, auxVars>>
vars == <<seqVars, sampleEffects, fxVars, edVars, saveVars, otherVars>>

-----------------------------------------------------------------------------
(* Bounds of the model *)

\* Tone.Sequence objects one run may create (calls of startSequencer that
\* get past the await).
MaxSeq == 3
\* Restart timers and startSequencer calls that may be pending at once.
MaxPending == 1
\* toggleStep / clearPattern calls in one run.
MaxEdits == 1
\* Units of audio time by which a Tone.Draw callback or a decode may lag.
MaxLate == 1
\* Audio time the playback specification runs for (two loops of 16
\* sixteenth notes at 120 bpm are 128 units).
PlayHorizon == 70

\* Tempo slider positions the model tries (the slider goes from 60 to 240).
BpmValues == {120, 240}
\* The entries of the Steps and Subdivision selects the model tries.
StepCountChoices == {8, 16}
SubdivisionChoices == {"16n", "32n"}
\* The step buttons the model presses: while the sequencer is set up, and
\* during playback.
SetupSteps == {0}
ToggleSteps == {0, 4}

-----------------------------------------------------------------------------
(* Data of the sequencer page *)

StepCountOptions == {8, 16, 24, 32}
Subdivisions == {"4n", "8n", "16n", "32n"}

\* The sample store: what getSamplesByProject resolves to for the project
\* in localStorage.
StoredSamples == <<"s1", "s2">>

Range(f) == {f[x] : x \in DOMAIN f}

\* Array(n).fill(false)
FalseArray(n) == [i \in 1..n |-> FALSE]

\* Faulty variant: the callback reads the step after the one it was called for.
StepAtNext(steps, k) == IF k + 2 \in 1..Len(steps) THEN steps[k + 2] ELSE FALSE

\* steps[k] of a JavaScript array: undefined (falsy) past the end.
StepAt(steps, k) == IF k + 1 \in 1..Len(steps) THEN steps[k + 1] ELSE FALSE

NoSequence == [state |-> "none", steps |-> 0, subdivision |-> "16n",
               pos |-> 0, next |-> 0, fired |-> FALSE]

\* A disposed sequence has let go of its events.
Disposed == [NoSequence EXCEPT !.state = "disposed"]

\* The number of the notation "<N>n": the share of a whole note.
NotationNumber(sub) ==
    CASE sub = "4n" -> 4 [] sub = "8n" -> 8 [] sub = "16n" -> 16 [] sub = "32n" -> 32

\* Faulty variant: the notation number taken as a share of a quarter note.
StepIntervalOfQuarter(b, sub) == (60 * 32) \div (b * NotationNumber(sub))

\* Tone.Time("<N>n") at tempo b, in units of 1/32 s: a whole note is four
\* quarter notes of 60/b seconds each.
StepInterval(b, sub) == (4 * 60 * 32) \div (b * NotationNumber(sub))

-----------------------------------------------------------------------------
(* Effect settings.  Every number is in thousandths: 1000 is 1.0. *)

DEFAULT_EFFECTS ==
    [volume |-> 1000, pan |-> 0,
     reverb |-> [enabled |-> FALSE, decay |-> 2000, wet |-> 300],
     delay |-> [enabled |-> FALSE, time |-> 300, feedback |-> 300, wet |-> 500],
     compression |-> [enabled |-> FALSE, threshold |-> -24000, ratio |-> 4000,
                      attack |-> 3, release |-> 250],
     eq |-> [enabled |-> FALSE, low |-> 0, mid |-> 0, high |-> 0]]

\* Slider positions the model tries.
VolumeValues == {0, 1000, 2000}
PanValues == {-1000, 0, 500}
WetValues == {0, 300, 1000}

\* The records the effects panel can produce from the defaults.
FxInputs ==
    {[DEFAULT_EFFECTS EXCEPT
         !.volume = v, !.pan = p,
         !.reverb.enabled = f[1], !.reverb.wet = rw,
         !.delay.enabled = f[2], !.delay.wet = dw,
         !.compression.enabled = f[3], !.eq.enabled = f[4]] :
       v \in VolumeValues, p \in PanValues, rw \in WetValues, dw \in WetValues,
       f \in [1..4 -> BOOLEAN]}

-----------------------------------------------------------------------------
(* The audio graph buildEffectsChain builds.  A node is named after the    *)
(* variable that holds it; cur is currentNode.                             *)

SourceGraph ==
    [nodes |-> [n \in {"source"} |-> [type |-> "BufferSource", params |-> <<>>]],
     edges |-> {}, cur |-> "source"]

\* ctx.create...() with the parameters the code then sets.
AddNode(g, name, type, params) ==
    [g EXCEPT !.nodes = [n \in DOMAIN g.nodes \cup {name} |->
        IF n = name THEN [type |-> type, params |-> params] ELSE g.nodes[n]]]

\* a.connect(b)
Connect(g, a, b) == [g EXCEPT !.edges = @ \cup {<<a, b>>}]

\* currentNode = n
Advance(g, n) == [g EXCEPT !.cur = n]

\* typeof v === 'number' && !isNaN(v)
IsNumber(v) == v \in Int

\* createImpulseResponse: two channels of sampleRate * decay random samples
\* under a squared decay envelope.  The graph keeps the decay; the samples
\* differ from call to call.
createImpulseResponse(decay) == [impulseDecay |-> decay]

(* ---- src/app/samples/page.tsx ---- *)

\* Faulty variant: the compressor is inserted whatever its flag says.
CompressionAlways(g, fx) ==
    Advance(Connect(AddNode(g, "compressor", "DynamicsCompressor",
                [threshold |-> fx.compression.threshold,
                 ratio |-> fx.compression.ratio,
                 attack |-> fx.compression.attack,
                 release |-> fx.compression.release]),
            g.cur, "compressor"), "compressor")

Compression(g, fx) ==
    IF fx.compression.enabled
    THEN Advance(Connect(AddNode(g, "compressor", "DynamicsCompressor",
                [threshold |-> fx.compression.threshold,
                 ratio |-> fx.compression.ratio,
                 attack |-> fx.compression.attack,
                 release |-> fx.compression.release]),
            g.cur, "compressor"), "compressor")
    ELSE g

Eq(g, fx) ==
    IF fx.eq.enabled
    THEN LET g1 == AddNode(g, "lowShelf", "BiquadFilter",
                     [kind |-> "lowshelf", frequency |-> 320000, gain |-> fx.eq.low])
             g2 == AddNode(g1, "mid", "BiquadFilter",
                     [kind |-> "peaking", frequency |-> 1000000, Q |-> 500,
                      gain |-> fx.eq.mid])
             g3 == AddNode(g2, "highShelf", "BiquadFilter",
                     [kind |-> "highshelf", frequency |-> 3200000, gain |-> fx.eq.high])
         IN Advance(Connect(Connect(Connect(g3, g.cur, "lowShelf"),
                                    "lowShelf", "mid"), "mid", "highShelf"),
                    "highShelf")
    ELSE g

\* Faulty variant: a disabled delay leaves a unity gain node in the chain.
DelayBypassNode(g, fx) ==
    Advance(Connect(AddNode(g, "delayMix", "Gain", [gain |-> 1000]),
            g.cur, "delayMix"), "delayMix")

Delay(g, fx) ==
    IF fx.delay.enabled
    THEN LET g1 == AddNode(g, "delayNode", "Delay", [delayTime |-> fx.delay.time])
             g2 == AddNode(g1, "delayFeedback", "Gain", [gain |-> fx.delay.feedback])
             g3 == AddNode(g2, "delayWet", "Gain", [gain |-> fx.delay.wet])
             g4 == AddNode(g3, "delayDry", "Gain", [gain |-> 1000 - fx.delay.wet])
             g5 == Connect(Connect(Connect(Connect(Connect(g4,
                        g.cur, "delayDry"), g.cur, "delayNode"),
                        "delayNode", "delayFeedback"), "delayFeedback", "delayNode"),
                        "delayNode", "delayWet")
             g6 == AddNode(g5, "delayMix", "Gain", [gain |-> 1000])
         IN Advance(Connect(Connect(g6, "delayDry", "delayMix"),
                            "delayWet", "delayMix"), "delayMix")
    ELSE g

\* Faulty variant: the dry path keeps its full level.
ReverbDryFull(g, fx) ==
    IF fx.reverb.enabled
    THEN LET g1 == AddNode(g, "convolver", "Convolver",
                     createImpulseResponse(fx.reverb.decay))
             g2 == AddNode(g1, "reverbWet", "Gain", [gain |-> fx.reverb.wet])
             g3 == AddNode(g2, "reverbDry", "Gain", [gain |-> 1000])
             g4 == Connect(Connect(Connect(g3, g.cur, "convolver"),
                        "convolver", "reverbWet"), g.cur, "reverbDry")
             g5 == AddNode(g4, "reverbMix", "Gain", [gain |-> 1000])
         IN Advance(Connect(Connect(g5, "reverbWet", "reverbMix"),
                            "reverbDry", "reverbMix"), "reverbMix")
    ELSE g

Reverb(g, fx) ==
    IF fx.reverb.enabled
    THEN LET g1 == AddNode(g, "convolver", "Convolver",
                     createImpulseResponse(fx.reverb.decay))
             g2 == AddNode(g1, "reverbWet", "Gain", [gain |-> fx.reverb.wet])
             g3 == AddNode(g2, "reverbDry", "Gain", [gain |-> 1000 - fx.reverb.wet])
             g4 == Connect(Connect(Connect(g3, g.cur, "convolver"),
                        "convolver", "reverbWet"), g.cur, "reverbDry")
             g5 == AddNode(g4, "reverbMix", "Gain", [gain |-> 1000])
         IN Advance(Connect(Connect(g5, "reverbWet", "reverbMix"),
                            "reverbDry", "reverbMix"), "reverbMix")
    ELSE g

Pan(g, fx) ==
    Advance(Connect(AddNode(g, "panner", "StereoPanner",
                [pan |-> IF IsNumber(fx.pan) THEN fx.pan ELSE 0]),
            g.cur, "panner"), "panner")

Volume(g, fx) ==
    Advance(Connect(AddNode(g, "volumeGain", "Gain",
                [gain |-> IF IsNumber(fx.volume) THEN fx.volume ELSE 1000]),
            g.cur, "volumeGain"), "volumeGain")

buildEffectsChain(fx) ==
    Volume(Pan(Reverb(Delay(Eq(Compression(SourceGraph, fx), fx), fx), fx), fx), fx)


(* ---- src/app/sequence/page.tsx: the sequencer's copy ---- *)

SeqCompression(g, fx) ==
    IF fx.compression.enabled
    THEN Advance(Connect(AddNode(g, "compressor", "DynamicsCompressor",
                [threshold |-> fx.compression.threshold,
                 ratio |-> fx.compression.ratio,
                 attack |-> fx.compression.attack,
                 release |-> fx.compression.release]),
            g.cur, "compressor"), "compressor")
    ELSE g

SeqEq(g, fx) ==
    IF fx.eq.enabled
    THEN LET g1 == AddNode(g, "lowShelf", "BiquadFilter",
                     [kind |-> "lowshelf", frequency |-> 320000, gain |-> fx.eq.low])
             g2 == AddNode(g1, "mid", "BiquadFilter",
                     [kind |-> "peaking", frequency |-> 1000000, Q |-> 500,
                      gain |-> fx.eq.mid])
             g3 == AddNode(g2, "highShelf", "BiquadFilter",
                     [kind |-> "highshelf", frequency |-> 3200000, gain |-> fx.eq.high])
         IN Advance(Connect(Connect(Connect(g3, g.cur, "lowShelf"),
                                    "lowShelf", "mid"), "mid", "highShelf"),
                    "highShelf")
    ELSE g

SeqDelay(g, fx) ==
    IF fx.delay.enabled
    THEN LET g1 == AddNode(g, "delayNode", "Delay", [delayTime |-> fx.delay.time])
             g2 == AddNode(g1, "delayFeedback", "Gain", [gain |-> fx.delay.feedback])
             g3 == AddNode(g2, "delayWet", "Gain", [gain |-> fx.delay.wet])
             g4 == AddNode(g3, "delayDry", "Gain", [gain |-> 1000 - fx.delay.wet])
             g5 == Connect(Connect(Connect(Connect(Connect(g4,
                        g.cur, "delayDry"), g.cur, "delayNode"),
                        "delayNode", "delayFeedback"), "delayFeedback", "delayNode"),
                        "delayNode", "delayWet")
             g6 == AddNode(g5, "delayMix", "Gain", [gain |-> 1000])
         IN Advance(Connect(Connect(g6, "delayDry", "delayMix"),
                            "delayWet", "delayMix"), "delayMix")
    ELSE g

SeqReverb(g, fx) ==
    IF fx.reverb.enabled
    THEN LET g1 == AddNode(g, "convolver", "Convolver",
                     createImpulseResponse(fx.reverb.decay))
             g2 == AddNode(g1, "reverbWet", "Gain", [gain |-> fx.reverb.wet])
             g3 == AddNode(g2, "reverbDry", "Gain", [gain |-> 1000 - fx.reverb.wet])
             g4 == Connect(Connect(Connect(g3, g.cur, "convolver"),
                        "convolver", "reverbWet"), g.cur, "reverbDry")
             g5 == AddNode(g4, "reverbMix", "Gain", [gain |-> 1000])
         IN Advance(Connect(Connect(g5, "reverbWet", "reverbMix"),
                            "reverbDry", "reverbMix"), "reverbMix")
    ELSE g

SeqPan(g, fx) ==
    Advance(Connect(AddNode(g, "panner", "StereoPanner", [pan |-> fx.pan]),
            g.cur, "panner"), "panner")

SeqVolume(g, fx) ==
    Advance(Connect(AddNode(g, "volumeGain", "Gain", [gain |-> fx.volume]),
            g.cur, "volumeGain"), "volumeGain")

SeqBuildEffectsChain(fx) ==
    SeqVolume(SeqPan(SeqReverb(SeqDelay(SeqEq(SeqCompression(SourceGraph, fx),
        fx), fx), fx), fx), fx)

-----------------------------------------------------------------------------
(* What a graph does to the signal: the Web Audio meaning of its nodes.    *)
(* A signal is a set of paths that are summed; a path is the sequence of   *)
(* operations the input went through.  A gain of 0 silences a path, a gain *)
(* of 1 leaves it as it is; a GainNode created and left alone has gain 1.  *)
(* A StereoPannerNode at pan 0 leaves a stereo input as it is and spreads  *)
(* a mono input over both channels at cos(pi/4) each.                      *)

Op(name, a, b) == [op |-> name, a |-> a, b |-> b]
Through(sig, op) == {Append(path, op) : path \in sig}
Input == {<<>>}
Silence == {}

Preds(g, n) == {e[1] : e \in {d \in g.edges : d[2] = n}}

RECURSIVE SignalAt(_, _, _)
SignalAt(g, n, ch) ==
    LET node == g.nodes[n]
        \* the feedback edge closes the loop inside the delay line
        ins == IF node.type = "Delay" THEN Preds(g, n) \ {"delayFeedback"}
               ELSE Preds(g, n)
        in == UNION {SignalAt(g, m, ch) : m \in ins}
    IN CASE node.type = "BufferSource" -> Input
         [] node.type = "Gain" ->
              IF node.params.gain = 0 THEN Silence
              ELSE IF node.params.gain = 1000 THEN in
              ELSE Through(in, Op("gain", node.params.gain, 0))
         [] node.type = "StereoPanner" ->
              IF node.params.pan = 0 /\ ch = 2 THEN in
              ELSE Through(in, Op("pan", node.params.pan, ch))
         [] node.type = "Delay" ->
              Through(in, Op("delay", node.params.delayTime,
                  IF <<"delayFeedback", n>> \in g.edges /\ <<n, "delayFeedback">> \in g.edges
                  THEN g.nodes["delayFeedback"].params.gain ELSE 0))
         [] node.type = "Convolver" ->
              Through(in, Op("convolve", node.params.impulseDecay, 0))
         [] node.type = "DynamicsCompressor" ->
              Through(in, Op("compress", node.params.threshold, node.params.ratio))
         [] node.type = "BiquadFilter" ->
              Through(in, Op(node.params.kind, node.params.frequency, node.params.gain))

\* The signal that reaches the destination: outputNode is the graph's last
\* currentNode.
Output(g, ch) == SignalAt(g, g.cur, ch)

NoChain == [samplesBuilt |-> FALSE, samples |-> SourceGraph,
            sequenceBuilt |-> FALSE, sequence |-> SourceGraph]

\* playSample on the samples page: the chain for the record found.
SamplesPagePlays ==
    /\ ~chain.samplesBuilt
    /\ chain' = [chain EXCEPT !.samplesBuilt = TRUE,
                              !.samples = buildEffectsChain(effects)]
    /\ UNCHANGED <<effects, channels, seqVars, edVars, saveVars, otherVars>>

\* playSample on the sequencer page, for the same record.
SequencePagePlays ==
    /\ ~chain.sequenceBuilt
    /\ chain' = [chain EXCEPT !.sequenceBuilt = TRUE,
                              !.sequence = SeqBuildEffectsChain(effects)]
    /\ UNCHANGED <<effects, channels, seqVars, edVars, saveVars, otherVars>>

-----------------------------------------------------------------------------
(* Samples page: where the effects records come from.  The records are     *)
(* kept in localStorage, in saved instruments and in exported files as     *)
(* JSON, and come back through JSON.parse as they were written.            *)

\* Values a stored record may hold for volume, delay feedback and the two
\* wet levels: inside and outside the ranges of the sliders.
StoredVolumes == {1000, 5000, -1000}
StoredFeedbacks == {300, 1500}
StoredDelayWets == {500, 2000}
StoredReverbWets == {300, -500}

\* What JSON.parse may give for one sample.
StoredRecords ==
    {[DEFAULT_EFFECTS EXCEPT
         !.volume = v,
         !.delay.enabled = d, !.delay.feedback = fb, !.delay.wet = dw,
         !.reverb.enabled = r, !.reverb.wet = rw] :
       v \in StoredVolumes, fb \in StoredFeedbacks, dw \in StoredDelayWets,
       rw \in StoredReverbWets, d \in BOOLEAN, r \in BOOLEAN}

\* The effect that restores effects_<project> from localStorage:
\* setSampleEffects(new Map(effectsArray)), the record of the sample
\* becomes r.
RestoreEffects(r) ==
    /\ ~chain.samplesBuilt
    /\ effects' = r
    /\ UNCHANGED <<channels, chain, seqVars, edVars, saveVars, otherVars>>

\* handleLoadInstrument: setSampleEffects(new Map(parsed.effects))
handleLoadInstrument(r) ==
    /\ ~chain.samplesBuilt
    /\ effects' = r
    /\ UNCHANGED <<channels, chain, seqVars, edVars, saveVars, otherVars>>

\* handleImportInstrument, once the file is read:
\* setSampleEffects(new Map(instrumentData.effects))
handleImportInstrument(r) ==
    /\ ~chain.samplesBuilt
    /\ effects' = r
    /\ UNCHANGED <<channels, chain, seqVars, edVars, saveVars, otherVars>>

\* The volume slider of the effects panel.
SetEffectVolume(v) ==
    /\ ~chain.samplesBuilt
    /\ effects' = [effects EXCEPT !.volume = v]
    /\ UNCHANGED <<channels, chain, seqVars, edVars, saveVars, otherVars>>

-----------------------------------------------------------------------------
(* Sequencer page: effects and helpers *)

\* Grid resync effect: truncate or pad one step array to n steps.
Resync(steps, n) ==
    IF Len(steps) < n THEN steps \o FalseArray(n - Len(steps))
    ELSE IF Len(steps) > n THEN SubSeq(steps, 1, n)
    ELSE steps

\* sequenceRef.current.stop()
StoppedSequences(seqs, ref) ==
    IF ref = 0 THEN seqs
    ELSE [seqs EXCEPT ![ref].state = IF @ = "disposed" THEN @ ELSE "stopped"]

\* Faulty variant: the old sequence is left as it is.
TornDownSkipped(seqs, ref) == seqs

\* startSequencer and the unmount cleanup: if (sequenceRef.current)
\* { stop(); dispose(); }.  The ref keeps pointing at the disposed object;
\* stopping or disposing it once more changes nothing.
TornDown(seqs, ref) ==
    IF ref = 0 THEN seqs ELSE [seqs EXCEPT ![ref] = Disposed]

\* Faulty variant: the tempo only reaches the transport at the next start.
BpmEffectDeferred(tr, tone, playing, b) == tr

\* The bpm effect (deps [bpm, isPlaying]): the tempo reaches the transport
\* when Tone is loaded and the page is playing.
BpmEffect(tr, tone, playing, b) ==
    IF tone /\ playing THEN [tr EXCEPT !.bpm = b] ELSE tr

\* startSequencer calls on their way: behind a timer or behind the await.
Pending == Len(restartTimers) + Len(pendingStarts)

Created == {i \in DOMAIN sequences : sequences[i].state # "none"}
Armed == {i \in DOMAIN sequences : sequences[i].state = "started"}

\* What a startSequencer closure holds of the render that created it.
Closure == [bpm |-> bpm, stepCount |-> stepCount, subdivision |-> subdivision]

-----------------------------------------------------------------------------
(* Sequencer page: handlers *)

\* stopSequencer(), called from a handler or an effect of the mounted page.
stopSequencer ==
    /\ transport' = IF ToneRef THEN [transport EXCEPT !.state = "stopped"]
                    ELSE transport
    /\ sequences' = StoppedSequences(sequences, sequenceRef)
    /\ isPlaying' = FALSE
    /\ currentStep' = -1

\* The rebuild effect (deps [stepCount, subdivision]) of the render that
\* holds the values b, n, d: stop, then start again 100 ms later.
RebuildEffect(b, n, d) ==
    IF isPlaying
    THEN /\ stopSequencer
         /\ restartTimers' = Append(restartTimers,
                [bpm |-> b, stepCount |-> n, subdivision |-> d])
    ELSE UNCHANGED <<transport, sequences, isPlaying, currentStep, restartTimers>>

\* import('tone') resolves.
ToneLoaded ==
    /\ ~ToneRef
    /\ ToneRef' = TRUE
    /\ UNCHANGED <<mounted, isPlaying, bpm, stepCount, subdivision, currentStep,
                   samples, grid, sequenceRef, samplesRef, gridRef, sequences,
                   transport, pendingLoads, restartTimers, pendingStarts,
                   drawQueue, decoding, now, horizon, lastTrig, trigGap,
                   loopTrigs, passDone, lastStep, lastStart, userStopped, edits, sampleEffects, fxVars, edVars, saveVars, otherVars>>

\* getSamplesByProject resolves inside loadSamples: the grid is built with
\* the stepCount of the render that called loadSamples.
LoadSamplesDone(l) ==
    /\ l \in pendingLoads
    /\ pendingLoads' = pendingLoads \ {l}
    /\ IF mounted
       THEN /\ samples' = StoredSamples
            /\ samplesRef' = samples'
            /\ grid' = [s \in Range(StoredSamples) |-> FalseArray(l.stepCount)]
            /\ gridRef' = grid'
            /\ sampleEffects' = [s \in Range(StoredSamples) |-> DEFAULT_EFFECTS]
       ELSE UNCHANGED <<samples, samplesRef, grid, gridRef, sampleEffects>>
    /\ UNCHANGED <<mounted, isPlaying, bpm, stepCount, subdivision, currentStep,
                   ToneRef, sequenceRef, sequences, transport, restartTimers,
                   pendingStarts, drawQueue, decoding, now, horizon, lastTrig,
                   trigGap, loopTrigs, passDone, lastStep, lastStart, userStopped, edits,
                   fxVars, edVars, saveVars, otherVars>>

\* The tempo slider.
SetBpm(b) ==
    /\ mounted /\ b # bpm
    /\ bpm' = b
    /\ transport' = BpmEffect(transport, ToneRef, isPlaying, b)
    /\ UNCHANGED <<mounted, isPlaying, stepCount, subdivision, currentStep,
                   samples, grid, ToneRef, sequenceRef, samplesRef, gridRef,
                   sequences, pendingLoads, restartTimers, pendingStarts,
                   drawQueue, decoding, now, horizon, lastTrig, trigGap,
                   loopTrigs, passDone, lastStep, lastStart, userStopped, edits, sampleEffects, fxVars, edVars, saveVars, otherVars>>

\* The Steps select: the grid resync effect, then the rebuild effect.
SetStepCount(n) ==
    /\ mounted /\ n \in StepCountOptions \ {stepCount}
    /\ isPlaying => Pending < MaxPending
    /\ stepCount' = n
    /\ grid' = [s \in DOMAIN grid |-> Resync(grid[s], n)]
    /\ gridRef' = grid'
    /\ RebuildEffect(bpm, n, subdivision)
    /\ UNCHANGED <<mounted, bpm, subdivision, samples, ToneRef, sequenceRef,
                   samplesRef, pendingLoads, pendingStarts, drawQueue, decoding,
                   now, horizon, lastTrig, trigGap, loopTrigs, passDone,
                   lastStep, lastStart, userStopped, edits, sampleEffects, fxVars, edVars, saveVars, otherVars>>

\* The Subdivision select: the rebuild effect.
SetSubdivision(d) ==
    /\ mounted /\ d \in Subdivisions \ {subdivision}
    /\ isPlaying => Pending < MaxPending
    /\ subdivision' = d
    /\ RebuildEffect(bpm, stepCount, d)
    /\ UNCHANGED <<mounted, bpm, stepCount, samples, grid, ToneRef, sequenceRef,
                   samplesRef, gridRef, pendingLoads, pendingStarts, drawQueue,
                   decoding, now, horizon, lastTrig, trigGap, loopTrigs,
                   passDone, lastStep, lastStart, userStopped, edits, sampleEffects, fxVars, edVars, saveVars, otherVars>>

\* togglePlayback while not playing: startSequencer() runs up to its
\* await Tone.start().  Without Tone it returns at once.
PressPlay ==
    /\ mounted /\ ~isPlaying /\ ToneRef
    /\ Pending < MaxPending
    /\ pendingStarts' = Append(pendingStarts, Closure)
    /\ userStopped' = FALSE
    /\ UNCHANGED <<mounted, isPlaying, bpm, stepCount, subdivision, currentStep,
                   samples, grid, ToneRef, sequenceRef, samplesRef, gridRef,
                   sequences, transport, pendingLoads, restartTimers, drawQueue,
                   decoding, now, horizon, lastTrig, trigGap, loopTrigs,
                   passDone, lastStep, lastStart, edits, sampleEffects, fxVars, edVars, saveVars, otherVars>>

\* togglePlayback while playing: stopSequencer().
PressStop ==
    /\ mounted /\ isPlaying
    /\ stopSequencer
    /\ userStopped' = TRUE
    /\ UNCHANGED <<mounted, bpm, stepCount, subdivision, samples, grid, ToneRef,
                   sequenceRef, samplesRef, gridRef, pendingLoads, restartTimers,
                   pendingStarts, drawQueue, decoding, now, horizon, lastTrig,
                   trigGap, loopTrigs, passDone, lastStep, lastStart, edits, sampleEffects, fxVars, edVars, saveVars, otherVars>>

\* The 100 ms timer of the rebuild effect fires: startSequencer() of the
\* render that armed it runs up to its await.
RestartTimerFires ==
    /\ restartTimers # <<>>
    /\ ToneRef
    /\ restartTimers' = Tail(restartTimers)
    /\ pendingStarts' = Append(pendingStarts, Head(restartTimers))
    /\ UNCHANGED <<mounted, isPlaying, bpm, stepCount, subdivision, currentStep,
                   samples, grid, ToneRef, sequenceRef, samplesRef, gridRef,
                   sequences, transport, pendingLoads, drawQueue, decoding, now,
                   horizon, lastTrig, trigGap, loopTrigs, passDone, lastStep, lastStart,
                   userStopped, edits, sampleEffects, fxVars, edVars, saveVars, otherVars>>

\* Tone.start() resolves: the rest of startSequencer, with the values p of
\* its closure.  The old sequence is stopped and disposed, the tempo set, a
\* new sequence created and started with the transport; setIsPlaying(true)
\* re-renders a mounted page that was not playing, which runs the bpm effect.
\* A sequence started on a transport that is already running falls in with
\* the transport's grid of step times.
FirstStep(tr, iv) ==
    IF tr.state = "started" /\ now > tr.startedAt
    THEN (now - tr.startedAt + iv - 1) \div iv
    ELSE 0

NewSequence(p, tr) ==
    LET iv == StepInterval(p.bpm, p.subdivision)
        k == FirstStep(tr, iv)
    IN [state |-> "started", steps |-> p.stepCount, subdivision |-> p.subdivision,
        pos |-> k % p.stepCount,
        next |-> IF tr.state = "started" THEN tr.startedAt + k * iv ELSE now,
        fired |-> FALSE]

NoTrig == [step |-> -1, time |-> -1]

StartResumes ==
    /\ pendingStarts # <<>>
    /\ Cardinality(Created) < MaxSeq
    /\ LET p == Head(pendingStarts)
           id == Cardinality(Created) + 1
           rerender == mounted /\ ~isPlaying
       IN /\ pendingStarts' = Tail(pendingStarts)
          /\ sequences' = [TornDown(sequences, sequenceRef) EXCEPT
                              ![id] = NewSequence(p, transport)]
          /\ sequenceRef' = id
          /\ isPlaying' = IF mounted THEN TRUE ELSE isPlaying
          /\ transport' =
                BpmEffect([state |-> "started", bpm |-> p.bpm,
                           startedAt |-> IF transport.state = "started"
                                         THEN transport.startedAt ELSE now],
                          ToneRef, rerender, bpm)
    /\ lastTrig' = [s \in DOMAIN lastTrig |-> NoTrig]
    /\ trigGap' = [s \in DOMAIN trigGap |-> -1]
    /\ loopTrigs' = [s \in DOMAIN loopTrigs |-> 0]
    /\ passDone' = [s \in DOMAIN passDone |-> -1]
    /\ UNCHANGED <<mounted, bpm, stepCount, subdivision, currentStep, samples,
                   grid, ToneRef, samplesRef, gridRef, pendingLoads,
                   restartTimers, drawQueue, decoding, now, horizon, lastStep,
                   lastStart, userStopped, edits, sampleEffects, fxVars, edVars, saveVars, otherVars>>

\* The page is left (client-side navigation): the cleanup of the mount
\* effect.  Timers and pending promises are not cancelled.
Unmount ==
    /\ mounted
    /\ mounted' = FALSE
    /\ sequences' = TornDown(sequences, sequenceRef)
    /\ transport' = IF ToneRef /\ transport.state = "started"
                    THEN [transport EXCEPT !.state = "stopped"] ELSE transport
    /\ userStopped' = TRUE
    /\ UNCHANGED <<isPlaying, bpm, stepCount, subdivision, currentStep, samples,
                   grid, ToneRef, sequenceRef, samplesRef, gridRef, pendingLoads,
                   restartTimers, pendingStarts, drawQueue, decoding, now,
                   horizon, lastTrig, trigGap, loopTrigs, passDone, lastStep,
                   lastStart, edits, sampleEffects, fxVars, edVars, saveVars, otherVars>>

\* A step button: the row shown for a sample is its grid entry, or a row of
\* stepCount empty steps when it has none.
ShownRow(s) == IF s \in DOMAIN grid THEN grid[s] ELSE FalseArray(stepCount)

toggleStep(s, k) ==
    /\ mounted /\ edits < MaxEdits
    /\ s \in Range(samples)
    /\ k + 1 \in 1..Len(ShownRow(s))
    /\ grid' = [t \in DOMAIN grid \cup {s} |->
                   IF t = s THEN [ShownRow(s) EXCEPT ![k + 1] = ~@] ELSE grid[t]]
    /\ gridRef' = grid'
    /\ edits' = edits + 1
    /\ UNCHANGED <<mounted, isPlaying, bpm, stepCount, subdivision, currentStep,
                   samples, ToneRef, sequenceRef, samplesRef, sequences,
                   transport, pendingLoads, restartTimers, pendingStarts,
                   drawQueue, decoding, now, horizon, lastTrig, trigGap,
                   loopTrigs, passDone, lastStep, lastStart, userStopped,
                   sampleEffects, fxVars, edVars, saveVars, otherVars>>

\* The Clear button.
clearPattern ==
    /\ mounted /\ edits < MaxEdits
    /\ grid' = [s \in DOMAIN grid |-> FalseArray(stepCount)]
    /\ gridRef' = grid'
    /\ edits' = edits + 1
    /\ UNCHANGED <<mounted, isPlaying, bpm, stepCount, subdivision, currentStep,
                   samples, ToneRef, sequenceRef, samplesRef, sequences,
                   transport, pendingLoads, restartTimers, pendingStarts,
                   drawQueue, decoding, now, horizon, lastTrig, trigGap,
                   loopTrigs, passDone, lastStep, lastStart, userStopped,
                   sampleEffects, fxVars, edVars, saveVars, otherVars>>

-----------------------------------------------------------------------------
(* Sequencer page: playback *)

\* A sequence is due when it is started on a started transport and the
\* audio time of its next step has come.
Due(i) ==
    /\ transport.state = "started"
    /\ sequences[i].state = "started"
    /\ sequences[i].next <= now

\* The samples the callback plays at step k: those of samplesRef whose row
\* in gridRef marks step k.
IsHit(s, k) == s \in DOMAIN gridRef /\ StepAt(gridRef[s], k)
Hits(k) == SelectSeq(samplesRef, LAMBDA s : IsHit(s, k))

\* The Tone.Sequence callback (time, step) of sequence i: one Tone.Draw
\* callback for the step display and one per sample to play, all at time.
Step(i) ==
    /\ i \in DOMAIN sequences
    /\ Due(i)
    /\ LET sq == sequences[i]
           k == sq.pos
           time == sq.next
           hits == Hits(k)
           hit == Range(hits)
       IN /\ drawQueue' = drawQueue
                \o <<[kind |-> "ui", time |-> time, step |-> k, sample |-> ""]>>
                \o [j \in 1..Len(hits) |->
                      [kind |-> "play", time |-> time, step |-> k,
                       sample |-> hits[j]]]
          /\ sequences' = [sequences EXCEPT
                ![i].pos = (k + 1) % sq.steps,
                ![i].next = time + StepInterval(transport.bpm, sq.subdivision),
                ![i].fired = TRUE]
          /\ lastStep' = [seq |-> i, step |-> k, time |-> time,
                          gap |-> IF sq.fired /\ lastStep.seq = i
                                  THEN time - lastStep.time ELSE -1,
                          hits |-> hit]
          /\ lastTrig' = [s \in DOMAIN lastTrig |->
                IF s \in hit THEN [step |-> k, time |-> time] ELSE lastTrig[s]]
          /\ trigGap' = [s \in DOMAIN trigGap |->
                IF s \in hit /\ lastTrig[s] # NoTrig
                THEN time - lastTrig[s].time ELSE trigGap[s]]
          /\ loopTrigs' = [s \in DOMAIN loopTrigs |->
                (IF k = 0 THEN 0 ELSE loopTrigs[s]) + (IF s \in hit THEN 1 ELSE 0)]
          /\ passDone' = IF k = 0 /\ sq.fired THEN loopTrigs ELSE passDone
    /\ UNCHANGED <<mounted, isPlaying, bpm, stepCount, subdivision, currentStep,
                   samples, grid, ToneRef, sequenceRef, samplesRef, gridRef,
                   transport, pendingLoads, restartTimers, pendingStarts,
                   decoding, now, horizon, lastStart, userStopped, edits,
                   sampleEffects, fxVars, edVars, saveVars, otherVars>>

\* An animation frame: Tone.Draw runs, in order, the callbacks whose time
\* has come.  setCurrentStep shows the step (on a mounted page); playSample
\* starts decoding the blob.
DueDraws == SelectSeq(drawQueue, LAMBDA e : e.time <= now)
LastUi(evs, cur) ==
    LET ui == SelectSeq(evs, LAMBDA e : e.kind = "ui")
    IN IF ui = <<>> \/ ~mounted THEN cur ELSE ui[Len(ui)].step

DrawFrame ==
    /\ DueDraws # <<>>
    /\ drawQueue' = SelectSeq(drawQueue, LAMBDA e : e.time > now)
    /\ currentStep' = LastUi(DueDraws, currentStep)
    /\ decoding' = decoding \cup
          {[sample |-> e.sample, step |-> e.step, time |-> e.time] :
             e \in {d \in Range(DueDraws) : d.kind = "play"}}
    /\ UNCHANGED <<mounted, isPlaying, bpm, stepCount, subdivision, samples,
                   grid, ToneRef, sequenceRef, samplesRef, gridRef, sequences,
                   transport, pendingLoads, restartTimers, pendingStarts, now,
                   horizon, lastTrig, trigGap, loopTrigs, passDone, lastStep,
                   lastStart, userStopped, edits, sampleEffects, fxVars, edVars, saveVars, otherVars>>

\* decodeAudioData resolves inside playSample: the chain is built and
\* source.start() plays the buffer from the current audio time.
PlaySampleStarts(v) ==
    /\ v \in decoding
    /\ decoding' = decoding \ {v}
    /\ lastStart' = [sample |-> v.sample, step |-> v.step, due |-> v.time,
                     at |-> now]
    /\ UNCHANGED <<mounted, isPlaying, bpm, stepCount, subdivision, currentStep,
                   samples, grid, ToneRef, sequenceRef, samplesRef, gridRef,
                   sequences, transport, pendingLoads, restartTimers,
                   pendingStarts, drawQueue, now, horizon, lastTrig, trigGap,
                   loopTrigs, passDone, lastStep, userStopped, edits, sampleEffects, fxVars, edVars, saveVars, otherVars>>

\* The audio clock advances one unit.  Sequence callbacks are never late;
\* animation frames and decodes lag by at most MaxLate.
Tick ==
    /\ now < horizon
    /\ \A i \in DOMAIN sequences : ~Due(i)
    /\ \A e \in Range(drawQueue) : now - e.time < MaxLate
    /\ \A v \in decoding : now - v.time < MaxLate
    /\ now' = now + 1
    /\ UNCHANGED <<mounted, isPlaying, bpm, stepCount, subdivision, currentStep,
                   samples, grid, ToneRef, sequenceRef, samplesRef, gridRef,
                   sequences, transport, pendingLoads, restartTimers,
                   pendingStarts, drawQueue, decoding, horizon, lastTrig,
                   trigGap, loopTrigs, passDone, lastStep, lastStart,
                   userStopped, edits, sampleEffects, fxVars, edVars, saveVars, otherVars>>

-----------------------------------------------------------------------------
(* The audio editor (src/components/AudioEditor.tsx): one edit session.    *)
(*                                                                         *)
(* Times are counted in ticks, TicksPerSample ticks to a sample frame: the *)
(* pointer resolves time more finely than the sample grid.  Sample values, *)
(* the volume and the time stretch are in thousandths.  One mounting of    *)
(* the component is one session: the samples page mounts the editor for    *)
(* the sample it edits and never changes its blob while it is mounted.     *)

\* Mouse presses on the waveform in one session.
MaxGestures == 2
\* Cut, copy and paste calls in one session.
MaxBufferOps == 2
\* Slider and trim input changes, normalize and revert calls in one
\* session.
MaxSettings == 1

\* Ticks to a sample frame: Math.floor(t * sampleRate) is t \div
\* TicksPerSample.
TicksPerSample == 2
\* 0.01 s in ticks: the buffers of the model hold one frame per 0.01 s.
Eps == 2
\* The 10 pixels of the marker tolerance, in ticks.
MarkerTolerance == 1
\* The 10 seconds the end-time input falls back on when no buffer is loaded.
FallbackDuration == 2000

\* The 1000 ms of the auto-save timer, in half-seconds.
AutoSaveDelay == 2
\* The 1 s handleSaveEditedSample falls back on, in ticks.
DefaultDuration == 100 * Eps

Null == -1
NoBuffer == <<>>
\* What a Float32Array holds after undefined was stored in it.
NaN == 999999

\* The buffers decodeAudioData may give the session.
LoadableBuffers ==
    { << <<100, -500, 300, 400, 200, 50>> >>,
      << <<10, 20, 250, 40, 50>>, <<-900, 60, 70, 80, 90>> >>,
      << <<0, 0>> >> }

\* Where the pointer stops on the waveform, as times.
PointerStops == {0, 1, 4}
\* Slider stops and typed values the model tries.
VolumeStops == {2000}
SemitoneStops == {-12}
CentStops == {100}
StretchStops == {500}
TrimInputs == {4, 3000}

Min(a, b) == IF a < b THEN a ELSE b
Max(a, b) == IF a > b THEN a ELSE b
Abs(x) == IF x < 0 THEN -x ELSE x

\* buffer.length, buffer.numberOfChannels, buffer.duration
Length(b) == IF b = NoBuffer THEN 0 ELSE Len(b[1])
Channels(b) == Len(b)
Duration(b) == Length(b) * TicksPerSample

\* createBuffer(channels, length, sampleRate): zero-filled; the length is
\* converted to an unsigned long, which drops its fraction.
createBuffer(ch, len) == [c \in 1..ch |-> [i \in 1..len |-> 0]]
Frames(ticks) == ticks \div TicksPerSample

\* data[i] of a Float32Array, i counted from 0: undefined past the end,
\* which `|| 0` turns into 0 and a store turns into NaN.
ReadOrZero(data, i) ==
    IF i + 1 \in 1..Len(data) /\ data[i + 1] # NaN THEN data[i + 1] ELSE 0
ReadRaw(data, i) == IF i + 1 \in 1..Len(data) THEN data[i + 1] ELSE NaN

\* Faulty variant: the copy starts at the first frame of the buffer.
CopyFromBufferStart(buf, selStart, selEnd) ==
    LET clip == createBuffer(Channels(buf), Frames(selEnd - selStart))
    IN [c \in 1..Channels(buf) |->
           [i \in 1..Len(clip[c]) |-> ReadOrZero(buf[c], i - 1)]]

\* The region copy of handleCut and handleCopy.
CopyRegion(buf, selStart, selEnd) ==
    LET startSample == Frames(selStart)
        clip == createBuffer(Channels(buf), Frames(selEnd - selStart))
    IN [c \in 1..Channels(buf) |->
           [i \in 1..Len(clip[c]) |-> ReadOrZero(buf[c], startSample + i - 1)]]

\* The buffer handleCut builds: the frames before the region, then the
\* frames after it moved down; a store past the end of the target is lost.
RemoveRegion(buf, selStart, selEnd) ==
    LET startSample == Frames(selStart)
        endSample == Frames(selEnd)
        target == createBuffer(Channels(buf),
                               Frames(Duration(buf) - (selEnd - selStart)))
    IN [c \in 1..Channels(buf) |->
           [j \in 1..Len(target[c]) |->
               IF j - 1 < startSample THEN buf[c][j]
               ELSE IF j + (endSample - startSample) <= Len(buf[c])
                    THEN buf[c][j + (endSample - startSample)]
                    ELSE 0]]

\* pastePosition of handlePaste: `selectionEnd || selectionStart` takes
\* selectionStart when selectionEnd is null or 0.
PastePosition ==
    IF selectionStart # Null
    THEN Min(selectionStart,
             IF selectionEnd = Null \/ selectionEnd = 0 THEN selectionStart
             ELSE selectionEnd)
    ELSE endTime

\* The buffer handlePaste builds.
InsertClipboard(buf, clip, pastePosition) ==
    LET pasteSample == Frames(pastePosition)
        m == Length(clip)
        target == createBuffer(Channels(buf), Frames(Duration(buf) + Duration(clip)))
    IN [c \in 1..Channels(buf) |->
           [j \in 1..Len(target[c]) |->
               IF j - 1 < pasteSample THEN ReadRaw(buf[c], j - 1)
               ELSE IF j - 1 < pasteSample + m THEN clip[c][j - pasteSample]
               ELSE buf[c][j - m]]]

\* Faulty variant: the scan compares the samples, not their magnitudes.
RECURSIVE PeakSigned(_, _)
PeakSigned(data, i) ==
    IF i > Len(data) THEN 0
    ELSE LET rest == PeakSigned(data, i + 1)
         IN IF data[i] # NaN /\ data[i] > rest THEN data[i] ELSE rest

\* The peak handleNormalize finds in channel 0: a NaN never compares
\* greater.
RECURSIVE PeakFrom(_, _)
PeakFrom(data, i) ==
    IF i > Len(data) THEN 0
    ELSE LET rest == PeakFrom(data, i + 1)
         IN IF data[i] # NaN /\ Abs(data[i]) > rest THEN Abs(data[i]) ELSE rest
Peak(buf) == PeakFrom(buf[1], 1)

\* The largest value of the fade sliders: max = (endTime - startTime) / 2,
\* in steps of 0.01 from 0.
FadeMax ==
    IF endTime - startTime < 2 * Eps THEN 0
    ELSE ((endTime - startTime) \div (2 * Eps)) * Eps

\* The mouse button is down on the waveform: the canvas takes mouseup and
\* mouseleave, so no button or slider is used meanwhile.
Pressed == isSelecting \/ draggingMarker # "null"

Done(op) == [op |-> op, result |-> "done"]
Rejected(op) == [op |-> op, result |-> "rejected"]
Threw(op) == [op |-> op, result |-> "threw"]

sessionParams == <<startTime, endTime, volume, pitchSemitones, pitchCents,
            fadeInDuration, fadeOutDuration, timeStretch>>
selectionVars == <<selectionStart, selectionEnd, isSelecting>>
budgets == <<gestures, bufferOps, settings>>

\* What handleAutoSave reads when a timer calls it: the state of the render
\* whose effect set the timer.
AutoSaveClosure(buf, saving, params) ==
    [audioBuffer |-> buf, isSaving |-> saving, params |-> params]

\* Faulty variant: the timer set before is left to run.
ClearNothing(ts, id) == ts

\* clearTimeout(id)
ClearTimeout(ts, id) == {t \in ts : t.id # id}
\* The id setTimeout returns: one no pending timer has.
FreshId(ts) ==
    CHOOSE i \in 1..(Cardinality(ts) + 1) :
        /\ \A t \in ts : t.id # i
        /\ \A j \in 1..(i - 1) : \E t \in ts : t.id = j

\* The auto-save effect, run after a handler changed one of the eight
\* parameters: the cleanup of the effect before it clears the timer in
\* autoSaveTimeoutRef; without a buffer the effect returns, else it clears
\* the timer again and sets one for handleAutoSave.
AutoSaveEffect ==
    /\ idle' = IF sessionParams' # sessionParams THEN 0 ELSE idle
    /\ IF sessionParams' = sessionParams
       THEN UNCHANGED <<timers, autoSaveTimeoutRef>>
       ELSE LET cleared == ClearTimeout(timers, autoSaveTimeoutRef)
            IN IF audioBuffer' = NoBuffer
               THEN timers' = cleared /\ UNCHANGED autoSaveTimeoutRef
               ELSE /\ timers' = cleared \cup
                         {[id |-> FreshId(cleared), left |-> AutoSaveDelay,
                           closure |-> AutoSaveClosure(audioBuffer', isSaving,
                                               sessionParams')]}
                    /\ autoSaveTimeoutRef' = FreshId(cleared)

(* ---- handlers ---- *)

\* loadAudioBuffer, once decodeAudioData has resolved.
LoadAudioBufferDone(b) ==
    /\ isOpen
    /\ audioBuffer = NoBuffer /\ originalValues = <<>>
    /\ audioBuffer' = b
    /\ startTime' = 0
    /\ endTime' = Duration(b)
    /\ originalValues' = <<[startTime |-> 0, endTime |-> Duration(b),
                            volume |-> 1000, pitchSemitones |-> 0,
                            pitchCents |-> 0, fadeInDuration |-> 0,
                            fadeOutDuration |-> 0, timeStretch |-> 1000]>>
    /\ lastOp' = Done("load")
    /\ UNCHANGED <<volume, pitchSemitones, pitchCents, fadeInDuration,
                   fadeOutDuration, timeStretch, selectionVars, clipboard,
                   draggingMarker, budgets, seqVars, fxVars, otherVars>>
    /\ AutoSaveEffect
    /\ UNCHANGED saveRest

\* handleCanvasMouseDown at time t of the waveform.
MouseDown(t) ==
    /\ isOpen
    /\ audioBuffer # NoBuffer /\ ~Pressed
    /\ gestures < MaxGestures
    /\ t \in 0..Duration(audioBuffer)
    /\ gestures' = gestures + 1
    /\ IF Abs(t - startTime) < MarkerTolerance
       THEN draggingMarker' = "start" /\ UNCHANGED selectionVars
       ELSE IF Abs(t - endTime) < MarkerTolerance
       THEN draggingMarker' = "end" /\ UNCHANGED selectionVars
       ELSE /\ isSelecting' = TRUE
            /\ selectionStart' = t /\ selectionEnd' = t
            /\ UNCHANGED draggingMarker
    /\ lastOp' = Done("mouse")
    /\ UNCHANGED <<audioBuffer, sessionParams, originalValues, clipboard,
                   bufferOps, settings, seqVars, fxVars, otherVars>>
    /\ AutoSaveEffect
    /\ UNCHANGED saveRest

\* handleCanvasMouseMove to time t, the button down.
MouseMove(t) ==
    /\ isOpen
    /\ audioBuffer # NoBuffer /\ Pressed
    /\ t \in 0..Duration(audioBuffer)
    /\ IF draggingMarker = "start"
       THEN /\ startTime' = Max(0, Min(t, endTime - Eps))
            /\ UNCHANGED <<endTime, selectionEnd>>
       ELSE IF draggingMarker = "end"
       THEN /\ endTime' = Max(startTime + Eps, Min(t, Duration(audioBuffer)))
            /\ UNCHANGED <<startTime, selectionEnd>>
       ELSE /\ selectionEnd' = Max(0, Min(t, Duration(audioBuffer)))
            /\ UNCHANGED <<startTime, endTime>>
    /\ lastOp' = Done("mouse")
    /\ UNCHANGED <<audioBuffer, volume, pitchSemitones, pitchCents,
                   fadeInDuration, fadeOutDuration, timeStretch,
                   originalValues, selectionStart, isSelecting, clipboard,
                   draggingMarker, budgets, seqVars, fxVars, otherVars>>
    /\ AutoSaveEffect
    /\ UNCHANGED saveRest

\* Faulty variant: the release keeps a selection however short.
MouseUpKeepsSelection ==
    /\ isOpen
    /\ Pressed
    /\ draggingMarker' = "null"
    /\ isSelecting' = FALSE
    /\ lastOp' = Done("mouse")
    /\ UNCHANGED <<audioBuffer, sessionParams, originalValues, clipboard,
                   selectionStart, selectionEnd, budgets, seqVars, fxVars, otherVars>>
    /\ AutoSaveEffect
    /\ UNCHANGED saveRest

\* handleCanvasMouseUp (mouseup or mouseleave): a selection shorter than
\* 0.01 s is dropped.
MouseUp ==
    /\ isOpen
    /\ Pressed
    /\ draggingMarker' = "null"
    /\ isSelecting' = FALSE
    /\ IF /\ isSelecting /\ selectionStart # Null /\ selectionEnd # Null
          /\ Abs(selectionEnd - selectionStart) < Eps
       THEN selectionStart' = Null /\ selectionEnd' = Null
       ELSE UNCHANGED <<selectionStart, selectionEnd>>
    /\ lastOp' = Done("mouse")
    /\ UNCHANGED <<audioBuffer, sessionParams, originalValues, clipboard,
                   budgets, seqVars, fxVars, otherVars>>
    /\ AutoSaveEffect
    /\ UNCHANGED saveRest

\* The Start and End number inputs.
SetStartInput(v) ==
    /\ isOpen
    /\ ~Pressed /\ settings < MaxSettings
    /\ settings' = settings + 1
    /\ startTime' = Max(0, Min(v, endTime - Eps))
    /\ lastOp' = Done("setting")
    /\ UNCHANGED <<audioBuffer, endTime, volume, pitchSemitones, pitchCents,
                   fadeInDuration, fadeOutDuration, timeStretch,
                   originalValues, selectionVars, clipboard, draggingMarker,
                   gestures, bufferOps, seqVars, fxVars, otherVars>>
    /\ AutoSaveEffect
    /\ UNCHANGED saveRest

SetEndInput(v) ==
    /\ isOpen
    /\ ~Pressed /\ settings < MaxSettings
    /\ settings' = settings + 1
    /\ endTime' = Max(startTime + Eps,
                      Min(v, IF Duration(audioBuffer) # 0
                             THEN Duration(audioBuffer) ELSE FallbackDuration))
    /\ lastOp' = Done("setting")
    /\ UNCHANGED <<audioBuffer, startTime, volume, pitchSemitones, pitchCents,
                   fadeInDuration, fadeOutDuration, timeStretch,
                   originalValues, selectionVars, clipboard, draggingMarker,
                   gestures, bufferOps, seqVars, fxVars, otherVars>>
    /\ AutoSaveEffect
    /\ UNCHANGED saveRest

\* The sliders: volume, pitch, fades, time stretch.  A range input keeps
\* its value between its min and max.
SetSlider(name, v) ==
    /\ isOpen
    /\ ~Pressed /\ settings < MaxSettings
    /\ settings' = settings + 1
    /\ volume' = IF name = "volume" THEN v ELSE volume
    /\ pitchSemitones' = IF name = "pitchSemitones" THEN v ELSE pitchSemitones
    /\ pitchCents' = IF name = "pitchCents" THEN v ELSE pitchCents
    /\ fadeInDuration' = IF name = "fadeIn" THEN Min(v, FadeMax) ELSE fadeInDuration
    /\ fadeOutDuration' = IF name = "fadeOut" THEN Min(v, FadeMax) ELSE fadeOutDuration
    /\ timeStretch' = IF name = "timeStretch" THEN v ELSE timeStretch
    /\ lastOp' = Done("setting")
    /\ UNCHANGED <<audioBuffer, startTime, endTime, originalValues,
                   selectionVars, clipboard, draggingMarker, gestures,
                   bufferOps, seqVars, fxVars, otherVars>>
    /\ AutoSaveEffect
    /\ UNCHANGED saveRest

\* The values a slider can be moved to.
SliderStops(name) ==
    CASE name = "volume" -> VolumeStops
      [] name = "pitchSemitones" -> SemitoneStops
      [] name = "pitchCents" -> CentStops
      [] name = "timeStretch" -> StretchStops
      [] OTHER -> {FadeMax}
Sliders == {"volume", "pitchSemitones", "pitchCents", "fadeIn", "fadeOut",
            "timeStretch"}

\* The active selection, ordered.
SelStart == Min(selectionStart, selectionEnd)
SelEnd == Max(selectionStart, selectionEnd)
NoSelection == selectionStart = Null \/ selectionEnd = Null

\* handleCut.  Without a buffer or a selection it alerts and returns.
\* createBuffer throws on a length of 0: for the clipboard before anything
\* is set, for the new buffer after setClipboard.
handleCut ==
    /\ isOpen
    /\ ~Pressed
    /\ bufferOps < MaxBufferOps
    /\ bufferOps' = bufferOps + 1
    /\ IF audioBuffer = NoBuffer \/ NoSelection
       THEN /\ lastOp' = Rejected("cut")
            /\ UNCHANGED <<audioBuffer, clipboard, selectionStart,
                           selectionEnd, endTime>>
       ELSE IF Frames(SelEnd - SelStart) = 0
       THEN /\ lastOp' = Threw("cut")
            /\ UNCHANGED <<audioBuffer, clipboard, selectionStart,
                           selectionEnd, endTime>>
       ELSE /\ clipboard' = CopyRegion(audioBuffer, SelStart, SelEnd)
            /\ IF Frames(Duration(audioBuffer) - (SelEnd - SelStart)) = 0
               THEN /\ lastOp' = Threw("cut")
                    /\ UNCHANGED <<audioBuffer, selectionStart,
                                   selectionEnd, endTime>>
               ELSE /\ audioBuffer' = RemoveRegion(audioBuffer, SelStart, SelEnd)
                    /\ selectionStart' = Null /\ selectionEnd' = Null
                    /\ endTime' = Duration(audioBuffer')
                    /\ lastOp' = [op |-> "cut", result |-> "done",
                                   before |-> audioBuffer]
    /\ UNCHANGED <<startTime, volume, pitchSemitones, pitchCents,
                   fadeInDuration, fadeOutDuration, timeStretch,
                   originalValues, isSelecting, draggingMarker, gestures,
                   settings, seqVars, fxVars, otherVars>>
    /\ AutoSaveEffect
    /\ UNCHANGED saveRest

\* handleCopy
handleCopy ==
    /\ isOpen
    /\ ~Pressed
    /\ bufferOps < MaxBufferOps
    /\ bufferOps' = bufferOps + 1
    /\ IF audioBuffer = NoBuffer \/ NoSelection
       THEN lastOp' = Rejected("copy") /\ UNCHANGED clipboard
       ELSE IF Frames(SelEnd - SelStart) = 0
       THEN lastOp' = Threw("copy") /\ UNCHANGED clipboard
       ELSE /\ clipboard' = CopyRegion(audioBuffer, SelStart, SelEnd)
            /\ lastOp' = Done("copy")
    /\ UNCHANGED <<audioBuffer, sessionParams, originalValues, selectionVars,
                   draggingMarker, gestures, settings, seqVars, fxVars, otherVars>>
    /\ AutoSaveEffect
    /\ UNCHANGED saveRest

\* handlePaste
handlePaste ==
    /\ isOpen
    /\ ~Pressed
    /\ bufferOps < MaxBufferOps
    /\ bufferOps' = bufferOps + 1
    /\ IF clipboard = NoBuffer \/ audioBuffer = NoBuffer
       THEN /\ lastOp' = Rejected("paste")
            /\ UNCHANGED <<audioBuffer, endTime, selectionStart, selectionEnd>>
       ELSE /\ audioBuffer' = InsertClipboard(audioBuffer, clipboard, PastePosition)
            /\ endTime' = Duration(audioBuffer')
            /\ selectionStart' = Null /\ selectionEnd' = Null
            /\ lastOp' = Done("paste")
    /\ UNCHANGED <<startTime, volume, pitchSemitones, pitchCents,
                   fadeInDuration, fadeOutDuration, timeStretch,
                   originalValues, isSelecting, clipboard, draggingMarker,
                   gestures, settings, seqVars, fxVars, otherVars>>
    /\ AutoSaveEffect
    /\ UNCHANGED saveRest

\* handleNormalize: volume = 1 / peak of channel 0, unless the peak is 0.
handleNormalize ==
    /\ isOpen
    /\ ~Pressed
    /\ settings < MaxSettings
    /\ settings' = settings + 1
    /\ IF audioBuffer = NoBuffer
       THEN lastOp' = Rejected("normalize") /\ UNCHANGED volume
       ELSE IF Peak(audioBuffer) > 0
       THEN /\ volume' = (1000 * 1000) \div Peak(audioBuffer)
            /\ lastOp' = Done("normalize")
       ELSE lastOp' = [op |-> "normalize", result |-> "silent"] /\ UNCHANGED volume
    /\ UNCHANGED <<audioBuffer, startTime, endTime, pitchSemitones, pitchCents,
                   fadeInDuration, fadeOutDuration, timeStretch,
                   originalValues, selectionVars, clipboard, draggingMarker,
                   gestures, bufferOps, seqVars, fxVars, otherVars>>
    /\ AutoSaveEffect
    /\ UNCHANGED saveRest

\* Faulty variant: the revert leaves the trim end where it is.
handleRevertKeepsEnd ==
    /\ isOpen
    /\ ~Pressed
    /\ settings < MaxSettings
    /\ settings' = settings + 1
    /\ IF originalValues = <<>>
       THEN lastOp' = Rejected("revert") /\ UNCHANGED sessionParams
       ELSE /\ startTime' = originalValues[1].startTime
            /\ volume' = originalValues[1].volume
            /\ pitchSemitones' = originalValues[1].pitchSemitones
            /\ pitchCents' = originalValues[1].pitchCents
            /\ fadeInDuration' = originalValues[1].fadeInDuration
            /\ fadeOutDuration' = originalValues[1].fadeOutDuration
            /\ timeStretch' = originalValues[1].timeStretch
            /\ lastOp' = Done("revert")
            /\ UNCHANGED endTime
    /\ UNCHANGED <<audioBuffer, originalValues, selectionVars, clipboard,
                   draggingMarker, gestures, bufferOps, seqVars, fxVars, otherVars>>
    /\ AutoSaveEffect
    /\ UNCHANGED saveRest

\* handleRevert: the eight parameters go back to what the load stored.
handleRevert ==
    /\ isOpen
    /\ ~Pressed
    /\ settings < MaxSettings
    /\ settings' = settings + 1
    /\ IF originalValues = <<>>
       THEN lastOp' = Rejected("revert") /\ UNCHANGED sessionParams
       ELSE /\ startTime' = originalValues[1].startTime
            /\ endTime' = originalValues[1].endTime
            /\ volume' = originalValues[1].volume
            /\ pitchSemitones' = originalValues[1].pitchSemitones
            /\ pitchCents' = originalValues[1].pitchCents
            /\ fadeInDuration' = originalValues[1].fadeInDuration
            /\ fadeOutDuration' = originalValues[1].fadeOutDuration
            /\ timeStretch' = originalValues[1].timeStretch
            /\ lastOp' = Done("revert")
    /\ UNCHANGED <<audioBuffer, originalValues, selectionVars, clipboard,
                   draggingMarker, gestures, bufferOps, seqVars, fxVars, otherVars>>
    /\ AutoSaveEffect
    /\ UNCHANGED saveRest

(* ---- auto-save ---- *)

\* handleTrim: an alert, nothing else.
handleTrim ==
    /\ isOpen /\ ~Pressed
    /\ lastOp' = IF audioBuffer = NoBuffer THEN Rejected("trim")
                 ELSE [op |-> "trim", result |-> "alerted"]
    /\ UNCHANGED <<audioBuffer, sessionParams, originalValues, selectionVars,
                   clipboard, draggingMarker, budgets, seqVars, fxVars,
                   otherVars>>
    /\ AutoSaveEffect
    /\ UNCHANGED saveRest

\* Half a second passes.
HalfSecondPasses ==
    /\ idle < AutoSaveDelay \/ \E t \in timers : t.left > 0
    /\ idle' = Min(idle + 1, AutoSaveDelay)
    /\ timers' = {[t EXCEPT !.left = Max(0, t.left - 1)] : t \in timers}
    /\ UNCHANGED <<edVars, saveRest, autoSaveTimeoutRef, seqVars, fxVars,
                   otherVars>>

\* The length of the buffer the render of closure c gives:
\* OfflineAudioContext(channels, (endTime - startTime) * sampleRate, ..).
RenderedLength(c) == Frames(c.params[2] - c.params[1])

\* The try block of handleAutoSave throws before the render starts: the
\* context cannot be made with less than one frame, and setValueAtTime
\* refuses a fade-out that starts before time 0.
RenderThrows(c) ==
    \/ RenderedLength(c) < 1
    \/ c.params[7] > 0 /\ (c.params[2] - c.params[1]) - c.params[7] < 0

\* The timer t runs out and calls handleAutoSave of its closure.
AutoSaveTimerFires(t) ==
    /\ t \in timers /\ t.left = 0
    /\ timers' = timers \ {t}
    /\ IF t.closure.audioBuffer = NoBuffer \/ t.closure.isSaving
       THEN /\ lastOp' = Rejected("autosave")
            /\ UNCHANGED <<isSaving, rendering>>
       ELSE IF RenderThrows(t.closure)
       THEN /\ lastOp' = [op |-> "autosave", result |-> "logged"]
            /\ isSaving' = FALSE
            /\ UNCHANGED rendering
       ELSE /\ lastOp' = [op |-> "autosave", result |-> "rendering"]
            /\ isSaving' = TRUE
            /\ rendering' = rendering \cup {t.closure}
    /\ UNCHANGED <<audioBuffer, sessionParams, originalValues, selectionVars,
                   clipboard, draggingMarker, budgets, isOpen, saved, stored,
                   listed, autoSaveTimeoutRef, idle, seqVars, fxVars,
                   otherVars>>

\* The project the samples page shows, and the sample the editor is
\* opened on.  A sample without a name or a MIDI note has the field
\* undefined.
currentProjectId == "default-project"
Undefined == "undefined"
SampleRecords ==
    {[id |-> "sample-1", projectId |-> currentProjectId,
      name |-> n, midiNote |-> m] : n \in {Undefined, "Kick"},
                                    m \in {Null, 60}}
SampleNames == {"Snare"}

\* The sample as captured, neither named nor mapped.
DbIdle ==
    dbSample = [id |-> "sample-1", projectId |-> currentProjectId,
                name |-> Undefined, midiNote |-> Null]

\* The fields, other than blob, timestamp and duration, of the object
\* handleSaveEditedSample hands to saveSample; store.put replaces the
\* record under the id with that object.
EditedRecord(editingSample) ==
    [id |-> editingSample.id, projectId |-> currentProjectId,
     name |-> Undefined, midiNote |-> Null]

\* handleSampleNameChange: the record is written again with the new name
\* and the other fields of the listed sample.
handleSampleNameChange(newName) ==
    /\ isOpen
    /\ dbSample' = [id |-> dbSample.id, projectId |-> currentProjectId,
                    name |-> newName, midiNote |-> dbSample.midiNote]
    /\ UNCHANGED <<coreVars, mapVars, panelVars, metVars>>

\* Faulty variant: a failed decode leaves the duration at its initial 0.
EditedSampleNoDefault(blob, decodes) ==
    [blob |-> blob,
     duration |-> IF decodes THEN blob.length * TicksPerSample ELSE 0]

\* The record handleSaveEditedSample writes for the blob: its duration is
\* the decoded one, or one second when decodeAudioData rejects.
EditedSample(blob, decodes) ==
    [blob |-> blob,
     duration |-> IF decodes THEN blob.length * TicksPerSample
                  ELSE DefaultDuration]

\* startRendering resolves for closure c: the rest of handleAutoSave, and
\* handleSaveEditedSample, which onSave is.  decodes: decodeAudioData
\* takes the blob; stores: saveSample succeeds.
RenderDone(c, decodes, stores) ==
    /\ c \in rendering
    /\ rendering' = rendering \ {c}
    /\ isSaving' = FALSE
    /\ saved' = <<[params |-> c.params, length |-> RenderedLength(c)]>>
    /\ stored' = IF stores THEN <<EditedSample(saved'[1], decodes)>> ELSE stored
    /\ listed' = IF stores THEN stored' ELSE listed
    /\ dbSample' = IF stores THEN EditedRecord(dbSample) ELSE dbSample
    /\ lastOp' = [op |-> "autosave",
                  result |-> IF ~stores THEN "unsaved"
                             ELSE IF decodes THEN "done" ELSE "warned"]
    /\ UNCHANGED <<audioBuffer, sessionParams, originalValues, selectionVars,
                   clipboard, draggingMarker, budgets, isOpen, timers,
                   autoSaveTimeoutRef, idle, seqVars, fxVars, wavVars,
                   midiVars, mapVars, panelVars, metVars>>

\* Faulty variant: the flag is not cleared after a failed render.
RenderFailsKeepsFlag(c) ==
    /\ c \in rendering
    /\ rendering' = rendering \ {c}
    /\ lastOp' = [op |-> "autosave", result |-> "logged"]
    /\ UNCHANGED <<audioBuffer, sessionParams, originalValues, selectionVars,
                   clipboard, draggingMarker, budgets, isOpen, isSaving, saved,
                   stored, listed, timers, autoSaveTimeoutRef, idle, seqVars,
                   fxVars, otherVars>>

\* startRendering rejects for closure c: the catch logs, the finally
\* clears the flag.
RenderFails(c) ==
    /\ c \in rendering
    /\ rendering' = rendering \ {c}
    /\ isSaving' = FALSE
    /\ lastOp' = [op |-> "autosave", result |-> "logged"]
    /\ UNCHANGED <<audioBuffer, sessionParams, originalValues, selectionVars,
                   clipboard, draggingMarker, budgets, isOpen, saved, stored,
                   listed, timers, autoSaveTimeoutRef, idle, seqVars, fxVars,
                   otherVars>>

\* onClose: the samples page unmounts the editor; the cleanups of the two
\* effects clear the timer in autoSaveTimeoutRef.
Close ==
    /\ isOpen /\ ~Pressed
    /\ isOpen' = FALSE
    /\ timers' = ClearTimeout(timers, autoSaveTimeoutRef)
    /\ lastOp' = Done("close")
    /\ UNCHANGED <<audioBuffer, sessionParams, originalValues, selectionVars,
                   clipboard, draggingMarker, budgets, isSaving, rendering,
                   saved, stored, listed, autoSaveTimeoutRef, idle, seqVars,
                   fxVars, otherVars>>

\* The editor is not open.
EdIdle ==
    /\ audioBuffer = NoBuffer /\ clipboard = NoBuffer
    /\ startTime = 0 /\ endTime = 0 /\ volume = 1000
    /\ pitchSemitones = 0 /\ pitchCents = 0
    /\ fadeInDuration = 0 /\ fadeOutDuration = 0 /\ timeStretch = 1000
    /\ originalValues = <<>>
    /\ selectionStart = Null /\ selectionEnd = Null /\ isSelecting = FALSE
    /\ draggingMarker = "null"
    /\ lastOp = [op |-> "none", result |-> "done"]
    /\ gestures = 0 /\ bufferOps = 0 /\ settings = 0

\* The editor has just been mounted: no timer, no render, nothing saved.
SaveIdle ==
    /\ isOpen = TRUE /\ isSaving = FALSE
    /\ timers = {} /\ autoSaveTimeoutRef = Null
    /\ rendering = {} /\ saved = <<>> /\ stored = <<>> /\ listed = <<>>
    /\ idle = 0

\* No encoder has been called.
WavIdle == wavIn = <<>> /\ wavOut = <<>>

\* The MIDI service as constructed.
NoMidiCalls ==
    [handled |-> FALSE, data |-> <<>>, registered |-> {}, learning |-> FALSE,
     calls |-> {}, learned |-> Null]
MidiIdle ==
    /\ noteCallbacks = {} /\ isLearningMode = FALSE
    /\ learnCallback = Null /\ midiCalls = NoMidiCalls

-----------------------------------------------------------------------------
(* MIDI mappings (MIDIStorage).  localStorage holds, per project, the      *)
(* array saveMappings wrote; a project without the key loads as the empty  *)
(* array.  A mapping holds a string and an integer, which JSON.stringify   *)
(* and JSON.parse give back as they were.                                  *)

MapProjects == {"p1", "p2"}
MapSamples == {"s1", "s2"}
MapNotes == {0, 60, 127}
NoSample == "null"

loadMappings(projectId) == localStorage[projectId]

\* Array.prototype.filter
Filter(seq, keep(_)) == SelectSeq(seq, keep)

\* Array.prototype.find: the first element that matches, <<>> for undefined
Find(seq, match(_)) ==
    LET all == SelectSeq(seq, match)
    IN IF all = <<>> THEN <<>> ELSE <<all[1]>>

\* mapping?.sampleId || null
SampleOrNull(found) ==
    IF found = <<>> \/ found[1].sampleId = "" THEN NoSample
    ELSE found[1].sampleId

\* mapping?.midiNote || null
NoteOrNull(found) ==
    IF found = <<>> \/ found[1].midiNote = 0 THEN Null
    ELSE found[1].midiNote

getSampleForNote(projectId, midiNote) ==
    LET match(m) == m.midiNote = midiNote
    IN SampleOrNull(Find(loadMappings(projectId), match))

getNoteForSample(projectId, sampleId) ==
    LET match(m) == m.sampleId = sampleId
    IN NoteOrNull(Find(loadMappings(projectId), match))

addMapping(projectId, sampleId, midiNote) ==
    LET keep(m) == m.midiNote # midiNote
        filtered == Filter(loadMappings(projectId), keep)
    IN
    /\ localStorage' =
           [localStorage EXCEPT ![projectId] =
               Append(filtered, [sampleId |-> sampleId, midiNote |-> midiNote])]
    /\ mapOp' = [op |-> "add", projectId |-> projectId,
                 sampleId |-> sampleId, midiNote |-> midiNote]
    /\ UNCHANGED <<coreVars, dbVars, panelVars, metVars>>

removeMapping(projectId, sampleId) ==
    LET keep(m) == m.sampleId # sampleId
    IN
    /\ localStorage' =
           [localStorage EXCEPT ![projectId] =
               Filter(loadMappings(projectId), keep)]
    /\ mapOp' = [op |-> "remove", projectId |-> projectId,
                 sampleId |-> sampleId, midiNote |-> Null]
    /\ UNCHANGED <<coreVars, dbVars, panelVars, metVars>>

clearMappings(projectId) ==
    /\ localStorage' = [localStorage EXCEPT ![projectId] = <<>>]
    /\ mapOp' = [op |-> "clear", projectId |-> projectId,
                 sampleId |-> NoSample, midiNote |-> Null]
    /\ UNCHANGED <<coreVars, dbVars, panelVars, metVars>>

\* No project has mappings stored.
MapIdle ==
    /\ localStorage = [p \in MapProjects |-> <<>>]
    /\ mapOp = [op |-> "none", projectId |-> "p1",
                sampleId |-> NoSample, midiNote |-> Null]

-----------------------------------------------------------------------------
(* The effects panel and object identity.  { ...DEFAULT_EFFECTS } copies   *)
(* the top level only: the copy holds the very reverb, delay, compression  *)
(* and eq objects of the constant.  fxHeap holds those nested objects, a   *)
(* settings object holds references into it.                               *)

MaxFxUpdates == 3
PanelSamples == {"s1", "s2"}
NestedKinds == {"reverb", "delay", "compression", "eq"}

\* The nested objects of DEFAULT_EFFECTS, and the constant itself.
DefaultHeap ==
    <<DEFAULT_EFFECTS.reverb, DEFAULT_EFFECTS.delay,
      DEFAULT_EFFECTS.compression, DEFAULT_EFFECTS.eq>>
DefaultObject ==
    [volume |-> DEFAULT_EFFECTS.volume, pan |-> DEFAULT_EFFECTS.pan,
     reverb |-> 1, delay |-> 2, compression |-> 3, eq |-> 4]

\* What the panel's controls send: a top-level number, or one field of a
\* nested object.
TopEdits == {<<"volume", 0>>, <<"volume", 2000>>, <<"pan", -1000>>}
NestedEdits ==
    {<<"reverb", "enabled", TRUE>>, <<"reverb", "wet", 1000>>,
     <<"delay", "enabled", TRUE>>, <<"delay", "feedback", 900>>,
     <<"compression", "enabled", TRUE>>, <<"eq", "low", 6000>>}

\* The settings of an object, nested objects read through heap h.
Settings(h, obj) ==
    [volume |-> obj.volume, pan |-> obj.pan,
     reverb |-> h[obj.reverb], delay |-> h[obj.delay],
     compression |-> h[obj.compression], eq |-> h[obj.eq]]

\* new Map(prev).set(sampleId, obj)
MapSet(map, sampleId, obj) ==
    [t \in DOMAIN map \cup {sampleId} |->
        IF t = sampleId THEN obj ELSE map[t]]

\* sampleEffects.get(sampleId) || DEFAULT_EFFECTS
GetOrDefault(sampleId) ==
    IF sampleId \in DOMAIN panelEffects THEN panelEffects[sampleId]
    ELSE DefaultObject

\* Faulty variant: the field is written into the object the reference
\* points to.
WriteInPlace(h, ref, field, value) ==
    [heap |-> [h EXCEPT ![ref] = [h[ref] EXCEPT ![field] = value]],
     ref |-> ref]

\* { ...effects.reverb, field: value }: a new object.
SpreadWith(h, ref, field, value) ==
    [heap |-> Append(h, [h[ref] EXCEPT ![field] = value]),
     ref |-> Len(h) + 1]

PanelStep(sampleId) ==
    /\ fxUpdates < MaxFxUpdates
    /\ fxUpdates' = fxUpdates + 1
    /\ panelOp' = sampleId
    /\ UNCHANGED <<panelPage, coreVars, mapVars, dbVars, metVars>>

\* Samples page, the effects button of a sample.
EffectsButton(sampleId) ==
    /\ panelPage = "samples"
    /\ selectedEffectsSample' =
           IF selectedEffectsSample = sampleId THEN "null" ELSE sampleId
    /\ panelEffects' =
           IF sampleId \in DOMAIN panelEffects THEN panelEffects
           ELSE MapSet(panelEffects, sampleId, DefaultObject)
    /\ UNCHANGED fxHeap
    /\ PanelStep(sampleId)

\* Samples page, a top-level slider of the open panel.
PanelSetTop(edit) ==
    /\ panelPage = "samples" /\ selectedEffectsSample # "null"
    /\ panelEffects' =
           MapSet(panelEffects, selectedEffectsSample,
                  [GetOrDefault(selectedEffectsSample) EXCEPT
                      ![edit[1]] = edit[2]])
    /\ UNCHANGED <<fxHeap, selectedEffectsSample>>
    /\ PanelStep(selectedEffectsSample)

\* Samples page, a toggle or slider of a nested effect of the open panel.
PanelSetNested(edit) ==
    /\ panelPage = "samples" /\ selectedEffectsSample # "null"
    /\ LET current == GetOrDefault(selectedEffectsSample)
           w == SpreadWith(fxHeap, current[edit[1]], edit[2], edit[3])
       IN /\ fxHeap' = w.heap
          /\ panelEffects' =
                 MapSet(panelEffects, selectedEffectsSample,
                        [current EXCEPT ![edit[1]] = w.ref])
    /\ UNCHANGED selectedEffectsSample
    /\ PanelStep(selectedEffectsSample)

\* Sequencer page, updateEffect(sampleId, effectType, value) with a number.
updateEffect(sampleId, edit) ==
    /\ panelPage = "sequence"
    /\ panelEffects' =
           MapSet(panelEffects, sampleId,
                  [GetOrDefault(sampleId) EXCEPT ![edit[1]] = edit[2]])
    /\ UNCHANGED <<fxHeap, selectedEffectsSample>>
    /\ PanelStep(sampleId)

\* Sequencer page, updateEffect(sampleId, kind, { ...effects[kind], field:
\* value }).
updateEffectNested(sampleId, edit) ==
    /\ panelPage = "sequence"
    /\ LET current == GetOrDefault(sampleId)
           w == SpreadWith(fxHeap, current[edit[1]], edit[2], edit[3])
       IN /\ fxHeap' = w.heap
          /\ panelEffects' =
                 MapSet(panelEffects, sampleId,
                        [current EXCEPT ![edit[1]] = w.ref])
    /\ UNCHANGED selectedEffectsSample
    /\ PanelStep(sampleId)

\* The samples page with no settings stored.
PanelIdle ==
    /\ panelPage = "samples"
    /\ panelEffects = [t \in {} |-> DefaultObject]
    /\ fxHeap = DefaultHeap
    /\ selectedEffectsSample = "null"
    /\ panelOp = "null"
    /\ fxUpdates = 0

-----------------------------------------------------------------------------
(* The metronome (src/components/Metronome.tsx).  Date.now() and the tap   *)
(* times are in milliseconds, counted from the mounting of the component.   *)
(* The text of the BPM field is a sequence of characters.  The AudioContext *)
(* is created at mount, before any gesture on the component, and starts     *)
(* suspended; it runs once a resume() has resolved.                         *)

\* resume() continuations that may be pending at once.
MaxResumes == 2
\* Presses of the tap-tempo button in one run.
MaxTaps == 5

\* What the BPM field hands to handleBpmChange.
BpmTexts == {<<>>, <<"a", "b">>, <<"1", "9">>, <<"2", "0">>,
             <<"3", "0", "0">>, <<"3", "0", "1">>,
             <<"1", "5", "0", ".", "7">>, <<"-", "5">>, <<" ", "9", "0">>}
\* Milliseconds between one press of the tap button and the next.
TapGaps == {0, 200, 250, 4000}

MetDigits == <<"0", "1", "2", "3", "4", "5", "6", "7", "8", "9">>
IsDigit(c) == \E d \in 1..10 : MetDigits[d] = c
DigitValue(c) == (CHOOSE d \in 1..10 : MetDigits[d] = c) - 1

RECURSIVE TrimStart(_)
TrimStart(s) ==
    IF s # <<>> /\ Head(s) = " " THEN TrimStart(Tail(s)) ELSE s

RECURSIVE LeadingDigits(_)
LeadingDigits(s) ==
    IF s = <<>> \/ ~IsDigit(Head(s)) THEN <<>>
    ELSE <<Head(s)>> \o LeadingDigits(Tail(s))

RECURSIVE DigitsValue(_)
DigitsValue(s) ==
    IF s = <<>> THEN 0
    ELSE 10 * DigitsValue(SubSeq(s, 1, Len(s) - 1)) + DigitValue(s[Len(s)])

\* parseInt(value): leading white space is skipped, a sign is read, then
\* the longest run of digits; NaN when there is no digit.
parseInt(value) ==
    LET t == TrimStart(value)
        signed == t # <<>> /\ Head(t) \in {"-", "+"}
        body == LeadingDigits(IF signed THEN Tail(t) ELSE t)
    IN IF body = <<>> THEN NaN
       ELSE IF signed /\ Head(t) = "-" THEN 0 - DigitsValue(body)
       ELSE DigitsValue(body)

isNaN(v) == v = NaN

\* Math.round(60000 / 0)
Infinity == 9999999

\* Faulty variant: the upper limit is not tested.
InBpmRangeNoUpper(v) == v >= 20

\* numValue >= 20 && numValue <= 300 (false for NaN, true for no infinity)
InBpmRange(v) == v >= 20 /\ v <= 300 /\ ~isNaN(v) /\ v # Infinity

\* newTapTimes.slice(-4)
LastFour(s) == IF Len(s) <= 4 THEN s ELSE SubSeq(s, Len(s) - 3, Len(s))

RECURSIVE IntervalSum(_)
\* intervals.reduce((a, b) => a + b, 0) over recentTaps[i] - recentTaps[i-1]
IntervalSum(s) ==
    IF Len(s) < 2 THEN 0
    ELSE (s[2] - s[1]) + IntervalSum(Tail(s))

\* Math.round(60000 / avgInterval), avgInterval the sum of the Len - 1
\* intervals divided by their number.  Math.round takes a half upwards.
CalculatedBpm(recentTaps) ==
    LET n == Len(recentTaps) - 1
        sum == IntervalSum(recentTaps)
    IN IF sum = 0 THEN Infinity
       ELSE IF sum > 0 THEN (120000 * n + sum) \div (2 * sum)
       ELSE (0 - (120000 * n + sum)) \div (2 * (0 - sum))

\* clearInterval(intervalRef.current)
ClearInterval(ivs, ref) == {t \in ivs : t.id # ref}

\* startMetronome() of a render whose bpm is b: the interval intervalRef
\* holds is cleared, a new one is set and kept in intervalRef.
startMetronome(ivs, ref, b) ==
    LET cleared == ClearInterval(ivs, ref)
        id == FreshId(cleared)
    IN [intervals |-> cleared \cup {[id |-> id, bpm |-> b]}, ref |-> id]

\* stopMetronome()
stopMetronome(ivs, ref) == [intervals |-> ClearInterval(ivs, ref), ref |-> Null]

\* playClick(), noted with what the component is at that moment.
Click(enabled) == IF metMounted /\ enabled THEN "on" ELSE "off"

\* The effect on [isEnabled, bpm], run by a render in which one of the two
\* changed: the cleanup of the effect before it, then the body.
MetronomeEffect(enabled, b) ==
    LET stopped == stopMetronome(intervals, intervalRef)
    IN IF enabled /\ ctxState = "suspended"
       THEN /\ Len(resumes) < MaxResumes
            /\ resumes' = Append(resumes, [bpm |-> b])
            /\ intervals' = stopped.intervals
            /\ intervalRef' = stopped.ref
            /\ UNCHANGED metClick
       ELSE IF enabled
       THEN LET started == startMetronome(stopped.intervals, stopped.ref, b)
            IN /\ intervals' = started.intervals
               /\ intervalRef' = started.ref
               /\ metClick' = Click(enabled)
               /\ UNCHANGED resumes
       ELSE /\ intervals' = stopped.intervals
            /\ intervalRef' = stopped.ref
            /\ UNCHANGED <<resumes, metClick>>

\* setBpm(b): a render and the effect when the value is a new one.
SetMetBpm(b) ==
    /\ metBpm' = b
    /\ UNCHANGED isEnabled
    /\ IF b = metBpm
       THEN UNCHANGED <<intervals, intervalRef, resumes, metClick>>
       ELSE MetronomeEffect(isEnabled, b)

MetUntouched == UNCHANGED <<coreVars, mapVars, dbVars, panelVars>>

\* handleBpmChange, e.target.value = value
handleBpmChange(value) ==
    /\ metMounted
    /\ IF value # <<>> /\ InBpmRange(parseInt(value))
       THEN SetMetBpm(parseInt(value))
       ELSE UNCHANGED <<metBpm, isEnabled, intervals, intervalRef, resumes,
                        metClick>>
    /\ UNCHANGED <<metMounted, ctxState, tapVars>>
    /\ MetUntouched

\* handleTapTempo, pressed gap milliseconds after the last event
handleTapTempo(gap) ==
    /\ metMounted
    /\ taps < MaxTaps
    /\ taps' = taps + 1
    /\ dateNow' = dateNow + gap
    /\ LET recentTaps == LastFour(Append(tapTimes, dateNow'))
       IN /\ tapTimes' = recentTaps
          /\ IF Len(recentTaps) >= 2 /\ InBpmRange(CalculatedBpm(recentTaps))
             THEN SetMetBpm(CalculatedBpm(recentTaps))
             ELSE UNCHANGED <<metBpm, isEnabled, intervals, intervalRef,
                              resumes, metClick>>
    /\ tapTimeoutRef' = dateNow' + 2000
    /\ UNCHANGED <<metMounted, ctxState>>
    /\ MetUntouched

\* The timeout handleTapTempo set, two seconds after the last press or
\* later.
TapTimeoutFires ==
    /\ tapTimeoutRef # Null
    /\ tapTimeoutRef' = Null
    /\ dateNow' = Max(dateNow, tapTimeoutRef)
    /\ tapTimes' = <<>>
    /\ UNCHANGED <<taps, metMounted, ctxState, metBpm, isEnabled, intervals,
                   intervalRef, resumes, metClick>>
    /\ MetUntouched

\* onClick={() => setIsEnabled(!isEnabled)}
ToggleEnabled ==
    /\ metMounted
    /\ isEnabled' = ~isEnabled
    /\ MetronomeEffect(isEnabled', metBpm)
    /\ UNCHANGED <<metBpm, metMounted, ctxState, tapVars>>
    /\ MetUntouched

\* The promise of audioContext.resume() resolves: the context runs and the
\* continuation calls the startMetronome of the render that asked.
ResumeResolves ==
    /\ resumes # <<>>
    /\ resumes' = Tail(resumes)
    /\ ctxState' = "running"
    /\ LET started == startMetronome(intervals, intervalRef, Head(resumes).bpm)
       IN /\ intervals' = started.intervals
          /\ intervalRef' = started.ref
    /\ metClick' = Click(isEnabled)
    /\ UNCHANGED <<metBpm, isEnabled, metMounted, tapVars>>
    /\ MetUntouched

\* An interval set by startMetronome comes round: playClick().
IntervalFires ==
    /\ \E t \in intervals : metClick' = Click(isEnabled)
    /\ UNCHANGED <<metBpm, isEnabled, metMounted, ctxState, intervals,
                   intervalRef, resumes, tapVars>>
    /\ MetUntouched

\* The component unmounts: the cleanup of the mount effect clears the
\* interval and the tap timeout, the cleanup of the effect on [isEnabled,
\* bpm] calls stopMetronome.  The AudioContext is not closed.
MetUnmount ==
    /\ metMounted
    /\ metMounted' = FALSE
    /\ intervals' = ClearInterval(intervals, intervalRef)
    /\ intervalRef' = Null
    /\ tapTimeoutRef' = Null
    /\ UNCHANGED <<metBpm, isEnabled, ctxState, resumes, metClick, tapTimes,
                   dateNow, taps>>
    /\ MetUntouched

\* The metronome as it is mounted.
MetIdle ==
    /\ metMounted = TRUE /\ isEnabled = FALSE /\ metBpm = 120
    /\ tapTimes = <<>> /\ tapTimeoutRef = Null /\ dateNow = 0 /\ taps = 0
    /\ ctxState = "suspended" /\ resumes = <<>>
    /\ intervals = {} /\ intervalRef = Null /\ metClick = "none"

\* Nothing outside the page a specification is about has happened.
AuxIdle == MapIdle /\ DbIdle /\ PanelIdle /\ MetIdle

-----------------------------------------------------------------------------
(* WAV encoders: audioBufferToWav of the editor, convertToWav of the       *)
(* share page.  A sample is counted in 1/50000 here; a blob is its bytes.   *)

\* The longest buffer handed to an encoder, in frames.
MaxWavFrames == 2
\* Sample rates and sample values the model tries: below -1, inside the
\* range, a negative value of less than one 16-bit step, +1, and NaN.
WavSampleRates == {8000, 44100}
WavSamples == {-75000, -12500, -1, 25000, 50000, NaN}
\* The sample value 1.0.
WavUnit == 50000
WavBuffers ==
    UNION {[1..ch -> [1..n -> WavSamples]] :
             ch \in 1..2, n \in 1..MaxWavFrames}

\* Number conversions of the DataView setters: the fraction is dropped,
\* the rest is taken modulo the width.
Trunc(num, den) == IF num >= 0 THEN num \div den ELSE -((-num) \div den)
ToInt16(x) == ((x + 32768) % 65536) - 32768
\* setUint16 / setUint32 / setInt16 with littleEndian = true
LE16(n) == <<n % 256, (n \div 256) % 256>>
LE32(n) == <<n % 256, (n \div 256) % 256, (n \div 65536) % 256,
             (n \div 16777216) % 256>>
Int16LE(x) == LE16(ToInt16(x) % 65536)

\* Math.max(-1, Math.min(1, sample)); NaN stays NaN.
ClampSample(s) == IF s = NaN THEN NaN ELSE Max(-WavUnit, Min(WavUnit, s))

\* The number audioBufferToWav pushes for a sample, as setInt16 takes it:
\* sample * 0x7FFF, and `| 0x8000` on a negative product, which first
\* drops the fraction: a product between -1 and 0 becomes 0x8000.
EditorInt16(s) ==
    LET c == ClampSample(s)
        whole == Trunc(c * 32767, WavUnit)
    IN IF c = NaN THEN 0
       ELSE IF c * 32767 < 0
            THEN (IF whole < 0 THEN whole ELSE whole + 32768)
            ELSE whole

\* The number convertToWav writes: sample * 0x8000 below 0, sample * 0x7FFF
\* from 0 on.
ShareInt16(s) ==
    LET c == ClampSample(s)
    IN IF c = NaN THEN 0
       ELSE IF c < 0 THEN Trunc(c * 32768, WavUnit)
       ELSE Trunc(c * 32767, WavUnit)

\* writeString
Chars(str) ==
    CASE str = "RIFF" -> <<82, 73, 70, 70>>
      [] str = "WAVE" -> <<87, 65, 86, 69>>
      [] str = "fmt " -> <<102, 109, 116, 32>>
      [] str = "data" -> <<100, 97, 116, 97>>

\* The 44 bytes both encoders write before the samples.
WavHeader(numberOfChannels, sampleRate, dataLength) ==
    Chars("RIFF") \o LE32(36 + dataLength) \o Chars("WAVE")
      \o Chars("fmt ") \o LE32(16) \o LE16(1) \o LE16(numberOfChannels)
      \o LE32(sampleRate) \o LE32(sampleRate * numberOfChannels * 2)
      \o LE16(numberOfChannels * 2) \o LE16(16)
      \o Chars("data") \o LE32(dataLength)

\* Faulty variant: the samples are written one channel after the other.
PlanarOrder(buf) ==
    [k \in 1..(Length(buf) * Channels(buf)) |->
        buf[((k - 1) \div Length(buf)) + 1][((k - 1) % Length(buf)) + 1]]

\* The samples in the order both encoders write them: frame by frame, the
\* channels of a frame next to each other.
Interleaved(buf) ==
    [k \in 1..(Length(buf) * Channels(buf)) |->
        buf[((k - 1) % Channels(buf)) + 1][((k - 1) \div Channels(buf)) + 1]]

\* The bytes of the samples, two per sample.
SampleBytes(ints) ==
    [b \in 1..(2 * Len(ints)) |-> Int16LE(ints[(b + 1) \div 2])[2 - (b % 2)]]

\* audioBufferToWav(buffer)
audioBufferToWav ==
    /\ wavIn # <<>> /\ wavOut = <<>> /\ wavIn[1].encoder = "editor"
    /\ LET buf == wavIn[1].buffer
           data == [k \in 1..(Length(buf) * Channels(buf)) |->
                       EditorInt16(Interleaved(buf)[k])]
       IN wavOut' = WavHeader(Channels(buf), wavIn[1].sampleRate, Len(data) * 2)
                      \o SampleBytes(data)
    /\ UNCHANGED <<wavIn, midiVars, seqVars, fxVars, edVars, saveVars, auxVars>>

\* convertToWav(blob), once the blob is decoded
convertToWav ==
    /\ wavIn # <<>> /\ wavOut = <<>> /\ wavIn[1].encoder = "share"
    /\ LET buf == wavIn[1].buffer
           length == Length(buf) * Channels(buf) * 2
           data == [k \in 1..(Length(buf) * Channels(buf)) |->
                       ShareInt16(Interleaved(buf)[k])]
       IN wavOut' = WavHeader(Channels(buf), wavIn[1].sampleRate, length)
                      \o SampleBytes(data)
    /\ UNCHANGED <<wavIn, midiVars, seqVars, fxVars, edVars, saveVars, auxVars>>

-----------------------------------------------------------------------------
(* The MIDI service (class MIDIService).  A message is the sequence of its  *)
(* bytes; a message without data is the empty sequence, which the guard of  *)
(* handleMIDIMessage treats as it treats a short one.                       *)

MaxCallbacks == 2
Callbacks == 1..MaxCallbacks

\* The closure listenForNote stores: it resolves the promise of that call.
Resolver == 1

MidiStatuses == {128, 137, 144, 153, 176}   \* 0x80 0x89 0x90 0x99 0xB0
MidiNotes == {60, 72}
MidiVelocities == {0, 64, 127}
MidiMessages ==
    {<<>>}
        \cup {<<s>> : s \in MidiStatuses}
        \cup {<<s, n>> : s \in MidiStatuses, n \in MidiNotes}
        \cup {<<s, n, v>> : s \in MidiStatuses, n \in MidiNotes,
                            v \in MidiVelocities}
        \cup {<<s, n, v, 0>> : s \in {144, 176}, n \in {60},
                               v \in MidiVelocities}

\* status & 0xf0
Command(status) == (status \div 16) * 16

\* Every 0x90 message counts as a note-on, whatever its velocity.
IsNoteOnAnyVelocity(status, velocity) == Command(status) = 144

IsNoteOn(status, velocity) == Command(status) = 144 /\ velocity > 0
IsNoteOff(status, velocity) ==
    \/ Command(status) = 128
    \/ Command(status) = 144 /\ velocity = 0

onNoteEvent(callback) ==
    /\ noteCallbacks' = noteCallbacks \cup {callback}
    /\ UNCHANGED <<isLearningMode, learnCallback, midiCalls>>
    /\ UNCHANGED <<wavVars, seqVars, fxVars, edVars, saveVars, auxVars>>

\* The function onNoteEvent returned; deleting a callback that is no
\* longer registered changes nothing.
Unsubscribe(callback) ==
    /\ callback \in noteCallbacks
    /\ noteCallbacks' = noteCallbacks \ {callback}
    /\ UNCHANGED <<isLearningMode, learnCallback, midiCalls>>
    /\ UNCHANGED <<wavVars, seqVars, fxVars, edVars, saveVars, auxVars>>

listenForNote ==
    /\ isLearningMode' = TRUE
    /\ learnCallback' = Resolver
    /\ UNCHANGED <<noteCallbacks, midiCalls>>
    /\ UNCHANGED <<wavVars, seqVars, fxVars, edVars, saveVars, auxVars>>

\* Learning is switched off but the stored callback is kept.
cancelLearnModeKeepsCallback ==
    /\ isLearningMode' = FALSE
    /\ UNCHANGED learnCallback
    /\ UNCHANGED <<noteCallbacks, midiCalls>>
    /\ UNCHANGED <<wavVars, seqVars, fxVars, edVars, saveVars, auxVars>>

cancelLearnMode ==
    /\ isLearningMode' = FALSE
    /\ learnCallback' = Null
    /\ UNCHANGED <<noteCallbacks, midiCalls>>
    /\ UNCHANGED <<wavVars, seqVars, fxVars, edVars, saveVars, auxVars>>

disconnect ==
    /\ noteCallbacks' = {}
    /\ isLearningMode' = FALSE
    /\ learnCallback' = Null
    /\ UNCHANGED midiCalls
    /\ UNCHANGED <<wavVars, seqVars, fxVars, edVars, saveVars, auxVars>>

handleMIDIMessage(data) ==
    LET seen == [handled |-> TRUE, data |-> data,
                 registered |-> noteCallbacks,
                 learning |-> isLearningMode /\ learnCallback # Null,
                 calls |-> {}, learned |-> Null]
    IN
    /\ IF Len(data) < 3
       THEN /\ midiCalls' = seen
            /\ UNCHANGED <<noteCallbacks, isLearningMode, learnCallback>>
       ELSE LET status == data[1]
                note == data[2]
                velocity == data[3]
                isNoteOn == IsNoteOn(status, velocity)
                isNoteOff == IsNoteOff(status, velocity)
            IN
            IF ~isNoteOn /\ ~isNoteOff
            THEN /\ midiCalls' = seen
                 /\ UNCHANGED <<noteCallbacks, isLearningMode, learnCallback>>
            ELSE IF isLearningMode /\ isNoteOn /\ learnCallback # Null
            THEN /\ midiCalls' = [seen EXCEPT !.learned = note]
                 /\ isLearningMode' = FALSE
                 /\ learnCallback' = Null
                 /\ UNCHANGED noteCallbacks
            ELSE /\ midiCalls' =
                        [seen EXCEPT !.calls =
                            {[callback |-> cb, note |-> note,
                              velocity |-> 127, noteOn |-> isNoteOn] :
                                 cb \in noteCallbacks}]
                 /\ UNCHANGED <<noteCallbacks, isLearningMode, learnCallback>>
    /\ UNCHANGED <<wavVars, seqVars, fxVars, edVars, saveVars, auxVars>>

-----------------------------------------------------------------------------
(* Specifications *)

NoStep == [seq |-> 0, step |-> -1, time |-> -1, gap |-> -1, hits |-> {}]
NoStart == [sample |-> "", step |-> -1, due |-> -1, at |-> -1]

\* No chain is being built.
FxIdle ==
    /\ effects = DEFAULT_EFFECTS
    /\ channels = 2
    /\ chain = NoChain

\* No sequence has scheduled anything.
NothingPlayed ==
    /\ drawQueue = <<>> /\ decoding = {}
    /\ lastTrig = [s \in Range(StoredSamples) |-> NoTrig]
    /\ trigGap = [s \in Range(StoredSamples) |-> -1]
    /\ loopTrigs = [s \in Range(StoredSamples) |-> 0]
    /\ passDone = [s \in Range(StoredSamples) |-> -1]
    /\ lastStep = NoStep /\ lastStart = NoStart
    /\ now = 0 /\ edits = 0

\* The sequencer page after its first render and mount effects: the Tone
\* import and the load of the stored project are under way.
SeqInit ==
    /\ mounted = TRUE /\ isPlaying = FALSE
    /\ bpm = 120 /\ stepCount = 16 /\ subdivision = "16n" /\ currentStep = -1
    /\ samples = <<>> /\ samplesRef = <<>>
    /\ grid = <<>> /\ gridRef = <<>> /\ sampleEffects = <<>>
    /\ ToneRef = FALSE /\ sequenceRef = 0
    /\ sequences = [i \in 1..MaxSeq |-> NoSequence]
    /\ transport = [state |-> "stopped", bpm |-> 120, startedAt |-> 0]
    /\ pendingLoads = {[stepCount |-> 16]}
    /\ restartTimers = <<>> /\ pendingStarts = <<>>
    /\ NothingPlayed
    /\ EdIdle /\ SaveIdle /\ WavIdle /\ MidiIdle /\ AuxIdle
    /\ horizon = 0
    /\ userStopped = FALSE
    /\ FxIdle

SeqNext ==
    \/ ToneLoaded
    \/ \E l \in pendingLoads : LoadSamplesDone(l)
    \/ \E b \in BpmValues : SetBpm(b)
    \/ \E n \in StepCountChoices : SetStepCount(n)
    \/ \E d \in SubdivisionChoices : SetSubdivision(d)
    \/ PressPlay
    \/ PressStop
    \/ RestartTimerFires
    \/ StartResumes
    \/ Unmount
    \/ \E s \in Range(StoredSamples), k \in SetupSteps : toggleStep(s, k)
    \/ clearPattern

\* The control of the sequencer: every handler, timer and promise of the
\* page, with the audio clock standing still (playback is SpecPlay).
Spec == SeqInit /\ [][SeqNext]_vars

\* The patterns of sample s1 that playback starts from (s2 starts empty).
PlayPatterns == {{0, 4, 8, 12}, {}}
Row(n, on) == [i \in 1..n |-> (i - 1) \in on]

\* The page just after startSequencer has finished: samples loaded, a
\* pattern entered, tempo, step count and subdivision chosen, Play pressed,
\* the first sequence started with the transport.
PlayInit ==
    \E b \in BpmValues, n \in StepCountChoices, d \in Subdivisions,
       on \in PlayPatterns :
        /\ mounted = TRUE /\ isPlaying = TRUE
        /\ bpm = b /\ stepCount = n /\ subdivision = d /\ currentStep = -1
        /\ samples = StoredSamples /\ samplesRef = StoredSamples
        /\ grid = [s \in Range(StoredSamples) |->
                      IF s = "s1" THEN Row(n, on) ELSE FalseArray(n)]
        /\ gridRef = grid
        /\ sampleEffects = [s \in Range(StoredSamples) |-> DEFAULT_EFFECTS]
        /\ ToneRef = TRUE /\ sequenceRef = 1
        /\ sequences = [i \in 1..MaxSeq |->
              IF i = 1 THEN [state |-> "started", steps |-> n, subdivision |-> d,
                             pos |-> 0, next |-> 0, fired |-> FALSE]
              ELSE NoSequence]
        /\ transport = [state |-> "started", bpm |-> b, startedAt |-> 0]
        /\ pendingLoads = {} /\ restartTimers = <<>> /\ pendingStarts = <<>>
        /\ NothingPlayed
    /\ EdIdle /\ SaveIdle /\ WavIdle /\ MidiIdle /\ AuxIdle
        /\ horizon = PlayHorizon
        /\ userStopped = FALSE
        /\ FxIdle

PlayNext ==
    \/ \E i \in 1..MaxSeq : Step(i)
    \/ DrawFrame
    \/ \E v \in decoding : PlaySampleStarts(v)
    \/ Tick
    \/ \E s \in Range(StoredSamples), k \in ToggleSteps : toggleStep(s, k)

\* Playback of a running sequence against the audio clock.
SpecPlay == PlayInit /\ [][PlayNext]_vars

\* One effects record, one decoded buffer, and the chains built for them.
FxInit ==
    /\ effects \in FxInputs
    /\ channels \in {1, 2}
    /\ chain = NoChain
    /\ mounted = TRUE /\ isPlaying = FALSE
    /\ bpm = 120 /\ stepCount = 16 /\ subdivision = "16n" /\ currentStep = -1
    /\ samples = <<>> /\ samplesRef = <<>>
    /\ grid = <<>> /\ gridRef = <<>> /\ sampleEffects = <<>>
    /\ ToneRef = FALSE /\ sequenceRef = 0
    /\ sequences = [i \in 1..MaxSeq |-> NoSequence]
    /\ transport = [state |-> "stopped", bpm |-> 120, startedAt |-> 0]
    /\ pendingLoads = {} /\ restartTimers = <<>> /\ pendingStarts = <<>>
    /\ NothingPlayed
    /\ EdIdle /\ SaveIdle /\ WavIdle /\ MidiIdle /\ AuxIdle
    /\ horizon = 0
    /\ userStopped = FALSE

FxNext ==
    \/ SamplesPagePlays
    \/ SequencePagePlays

SpecFx == FxInit /\ [][FxNext]_vars

\* The editor after its first render: the decode of the sample is under
\* way, the sequencer and the effects chain stay as they are.
EdInit ==
    /\ FxIdle
    /\ mounted = TRUE /\ isPlaying = FALSE
    /\ bpm = 120 /\ stepCount = 16 /\ subdivision = "16n" /\ currentStep = -1
    /\ samples = <<>> /\ samplesRef = <<>>
    /\ grid = <<>> /\ gridRef = <<>> /\ sampleEffects = <<>>
    /\ ToneRef = FALSE /\ sequenceRef = 0
    /\ sequences = [i \in 1..MaxSeq |-> NoSequence]
    /\ transport = [state |-> "stopped", bpm |-> 120, startedAt |-> 0]
    /\ pendingLoads = {} /\ restartTimers = <<>> /\ pendingStarts = <<>>
    /\ NothingPlayed
    /\ EdIdle /\ SaveIdle /\ WavIdle /\ MidiIdle /\ AuxIdle
    /\ horizon = 0
    /\ userStopped = FALSE

EdNext ==
    \/ \E b \in LoadableBuffers : LoadAudioBufferDone(b)
    \/ \E t \in PointerStops \cup {Duration(audioBuffer)} : MouseDown(t)
    \/ \E t \in PointerStops \cup {Duration(audioBuffer)} : MouseMove(t)
    \/ MouseUp
    \/ \E v \in TrimInputs : SetStartInput(v)
    \/ \E v \in TrimInputs : SetEndInput(v)
    \/ \E name \in Sliders : \E v \in SliderStops(name) : SetSlider(name, v)
    \/ handleCut
    \/ handleCopy
    \/ handlePaste
    \/ handleNormalize
    \/ handleRevert

SpecEdit == EdInit /\ [][EdNext]_vars

\* The samples page with the default record for the sample, before
\* anything is restored or played.
LoadInit ==
    /\ EdIdle /\ SaveIdle /\ WavIdle /\ MidiIdle /\ AuxIdle
    /\ FxIdle
    /\ mounted = TRUE /\ isPlaying = FALSE
    /\ bpm = 120 /\ stepCount = 16 /\ subdivision = "16n" /\ currentStep = -1
    /\ samples = <<>> /\ samplesRef = <<>>
    /\ grid = <<>> /\ gridRef = <<>> /\ sampleEffects = <<>>
    /\ ToneRef = FALSE /\ sequenceRef = 0
    /\ sequences = [i \in 1..MaxSeq |-> NoSequence]
    /\ transport = [state |-> "stopped", bpm |-> 120, startedAt |-> 0]
    /\ pendingLoads = {} /\ restartTimers = <<>> /\ pendingStarts = <<>>
    /\ NothingPlayed
    /\ horizon = 0
    /\ userStopped = FALSE

LoadNext ==
    \/ \E r \in StoredRecords : RestoreEffects(r)
    \/ \E r \in StoredRecords : handleLoadInstrument(r)
    \/ \E r \in StoredRecords : handleImportInstrument(r)
    \/ \E v \in VolumeValues : SetEffectVolume(v)
    \/ SamplesPagePlays

SpecLoad == LoadInit /\ [][LoadNext]_vars

\* The editor with its auto-save: settings, time, timers, renders, close.
SaveInit ==
    /\ FxIdle
    /\ mounted = TRUE /\ isPlaying = FALSE
    /\ bpm = 120 /\ stepCount = 16 /\ subdivision = "16n" /\ currentStep = -1
    /\ samples = <<>> /\ samplesRef = <<>>
    /\ grid = <<>> /\ gridRef = <<>> /\ sampleEffects = <<>>
    /\ ToneRef = FALSE /\ sequenceRef = 0
    /\ sequences = [i \in 1..MaxSeq |-> NoSequence]
    /\ transport = [state |-> "stopped", bpm |-> 120, startedAt |-> 0]
    /\ pendingLoads = {} /\ restartTimers = <<>> /\ pendingStarts = <<>>
    /\ NothingPlayed
    /\ EdIdle /\ SaveIdle /\ WavIdle /\ MidiIdle /\ MapIdle /\ PanelIdle
    /\ MetIdle
    /\ dbSample \in SampleRecords
    /\ horizon = 0
    /\ userStopped = FALSE
SaveNext ==
    \/ \E b \in LoadableBuffers : LoadAudioBufferDone(b)
    \/ \E v \in TrimInputs : SetStartInput(v)
    \/ \E v \in TrimInputs : SetEndInput(v)
    \/ \E name \in Sliders : \E v \in SliderStops(name) : SetSlider(name, v)
    \/ handleNormalize
    \/ handleRevert
    \/ handleTrim
    \/ HalfSecondPasses
    \/ \E t \in timers : AutoSaveTimerFires(t)
    \/ \E c \in rendering : \E decodes, stores \in BOOLEAN :
         RenderDone(c, decodes, stores)
    \/ \E c \in rendering : RenderFails(c)
    \/ \E newName \in SampleNames : handleSampleNameChange(newName)
    \/ Close

SpecSave == SaveInit /\ [][SaveNext]_vars

\* An encoder is handed a buffer and returns the blob.
WavInit ==
    /\ FxIdle
    /\ mounted = TRUE /\ isPlaying = FALSE
    /\ bpm = 120 /\ stepCount = 16 /\ subdivision = "16n" /\ currentStep = -1
    /\ samples = <<>> /\ samplesRef = <<>>
    /\ grid = <<>> /\ gridRef = <<>> /\ sampleEffects = <<>>
    /\ ToneRef = FALSE /\ sequenceRef = 0
    /\ sequences = [i \in 1..MaxSeq |-> NoSequence]
    /\ transport = [state |-> "stopped", bpm |-> 120, startedAt |-> 0]
    /\ pendingLoads = {} /\ restartTimers = <<>> /\ pendingStarts = <<>>
    /\ NothingPlayed
    /\ EdIdle /\ SaveIdle /\ MidiIdle /\ AuxIdle
    /\ horizon = 0
    /\ userStopped = FALSE
    /\ wavOut = <<>>
    /\ \E e \in {"editor", "share"}, sr \in WavSampleRates, b \in WavBuffers :
         wavIn = <<[encoder |-> e, sampleRate |-> sr, buffer |-> b]>>
WavNext == audioBufferToWav \/ convertToWav
SpecWav == WavInit /\ [][WavNext]_vars

MidiInit ==
    /\ FxIdle
    /\ mounted = TRUE /\ isPlaying = FALSE
    /\ bpm = 120 /\ stepCount = 16 /\ subdivision = "16n" /\ currentStep = -1
    /\ samples = <<>> /\ samplesRef = <<>>
    /\ grid = <<>> /\ gridRef = <<>> /\ sampleEffects = <<>>
    /\ ToneRef = FALSE /\ sequenceRef = 0
    /\ sequences = [i \in 1..MaxSeq |-> NoSequence]
    /\ transport = [state |-> "stopped", bpm |-> 120, startedAt |-> 0]
    /\ pendingLoads = {} /\ restartTimers = <<>> /\ pendingStarts = <<>>
    /\ NothingPlayed
    /\ EdIdle /\ SaveIdle /\ WavIdle /\ MidiIdle /\ AuxIdle
    /\ horizon = 0
    /\ userStopped = FALSE
MidiNext ==
    \/ \E cb \in Callbacks : onNoteEvent(cb)
    \/ \E cb \in Callbacks : Unsubscribe(cb)
    \/ listenForNote
    \/ cancelLearnMode
    \/ disconnect
    \/ \E data \in MidiMessages : handleMIDIMessage(data)
SpecMidi == MidiInit /\ [][MidiNext]_vars

MapInit == MidiInit
MapNext ==
    \/ \E p \in MapProjects, sm \in MapSamples, n \in MapNotes :
          addMapping(p, sm, n)
    \/ \E p \in MapProjects, sm \in MapSamples : removeMapping(p, sm)
    \/ \E p \in MapProjects : clearMappings(p)
SpecMap == MapInit /\ [][MapNext]_vars

PanelInit ==
    /\ FxIdle
    /\ mounted = TRUE /\ isPlaying = FALSE
    /\ bpm = 120 /\ stepCount = 16 /\ subdivision = "16n" /\ currentStep = -1
    /\ samples = <<>> /\ samplesRef = <<>>
    /\ grid = <<>> /\ gridRef = <<>> /\ sampleEffects = <<>>
    /\ ToneRef = FALSE /\ sequenceRef = 0
    /\ sequences = [i \in 1..MaxSeq |-> NoSequence]
    /\ transport = [state |-> "stopped", bpm |-> 120, startedAt |-> 0]
    /\ pendingLoads = {} /\ restartTimers = <<>> /\ pendingStarts = <<>>
    /\ NothingPlayed
    /\ EdIdle /\ SaveIdle /\ WavIdle /\ MidiIdle /\ MapIdle /\ DbIdle
    /\ MetIdle
    /\ selectedEffectsSample = "null" /\ panelOp = "null" /\ fxUpdates = 0
    /\ fxHeap = DefaultHeap
    \* the samples page starts without settings; the sequencer page after
    \* loadSamples, which gives every sample { ...DEFAULT_EFFECTS }
    /\ \/ panelPage = "samples" /\ panelEffects = [t \in {} |-> DefaultObject]
       \/ panelPage = "sequence"
            /\ panelEffects = [t \in PanelSamples |-> DefaultObject]
    /\ horizon = 0
    /\ userStopped = FALSE
PanelNext ==
    \/ \E sm \in PanelSamples : EffectsButton(sm)
    \/ \E e \in TopEdits : PanelSetTop(e)
    \/ \E e \in NestedEdits : PanelSetNested(e)
    \/ \E sm \in PanelSamples, e \in TopEdits : updateEffect(sm, e)
    \/ \E sm \in PanelSamples, e \in NestedEdits : updateEffectNested(sm, e)
SpecPanel == PanelInit /\ [][PanelNext]_vars

TempoInit == MidiInit
TempoNext ==
    \/ \E value \in BpmTexts : handleBpmChange(value)
    \/ \E gap \in TapGaps : handleTapTempo(gap)
    \/ TapTimeoutFires
SpecTempo == TempoInit /\ [][TempoNext]_vars

ClickInit == MidiInit
ClickNext ==
    \/ ToggleEnabled
    \/ \E value \in BpmTexts : handleBpmChange(value)
    \/ ResumeResolves
    \/ IntervalFires
    \/ MetUnmount
SpecClick == ClickInit /\ [][ClickNext]_vars

-----------------------------------------------------------------------------
(* definitions they replace.  Properties follow.                           *)

C2_StoppedStaysStopped ==
    userStopped =>
        ~(transport.state = "started" /\ \E i \in Created : sequences[i].state = "started")

\* C4: every step array of the grid has stepCount steps.
C4_GridLengthIsStepCount ==
    \A s \in DOMAIN grid : Len(grid[s]) = stepCount

\* C5: a tempo change while playing reaches the transport in the same step
\* and leaves the schedule and the rest of the sequencer state as they are.
C5_BpmChangeKeepsSchedule ==
    [][(bpm' # bpm /\ isPlaying) =>
         /\ transport'.bpm = bpm'
         /\ transport'.state = transport.state
         /\ transport'.startedAt = transport.startedAt
         /\ UNCHANGED <<sequences, sequenceRef, isPlaying, stepCount,
                        subdivision, grid, gridRef, currentStep, restartTimers,
                        pendingStarts>>]_vars

\* The page is playing at a tempo other than the initial 120, which the
\* transport has taken over, with its sequence armed.
C5_Witness ==
    /\ isPlaying /\ bpm = 240 /\ transport.bpm = 240
    /\ transport.state = "started"
    /\ sequenceRef # 0 /\ sequences[sequenceRef].state = "started"

\* C3: a sample's playback starts at the audio time of the step that
\* scheduled it.
C3_TriggerAtScheduledTime ==
    lastStart # NoStart => lastStart.at = lastStart.due

\* The share of a quarter note the specification gives each subdivision:
\* quarter 1, eighth 1/2, sixteenth 1/4, thirty-second 1/8.
QuarterShare(sub) ==
    CASE sub = "4n" -> <<1, 1>> [] sub = "8n" -> <<1, 2>>
      [] sub = "16n" -> <<1, 4>> [] sub = "32n" -> <<1, 8>>

Scenario ==
    /\ transport.bpm = 120 /\ sequenceRef = 1
    /\ sequences[1].steps = 16 /\ sequences[1].subdivision = "16n"
    /\ edits = 0 /\ "s1" \in DOMAIN gridRef
    /\ gridRef["s1"] = Row(16, {0, 4, 8, 12})

\* A callback schedules exactly the samples whose row, as it is when the
\* callback runs, marks the callback's step.
HitsFollowPattern ==
    lastStep' # lastStep =>
        lastStep'.hits = {s \in Range(samplesRef) :
                            /\ s \in DOMAIN gridRef
                            /\ lastStep'.step + 1 <= Len(gridRef[s])
                            /\ gridRef[s][lastStep'.step + 1]}

\* In the scenario s1 is scheduled on steps 0, 4, 8 and 12 only, 0.5 s
\* (16 units) after its previous event, four times in a pass of the loop.
ScenarioTiming ==
    Scenario =>
        /\ lastTrig["s1"].step \in {-1, 0, 4, 8, 12}
        /\ trigGap["s1"] \in {-1, 16}
        /\ passDone["s1"] \in {-1, 4}

\* C7: in each loop a sample is scheduled at exactly the steps its pattern
\* marks at the step boundary; the scenario gives four events per loop,
\* 0.5 s apart.
C7_TriggersFollowPattern ==
    /\ [][HitsFollowPattern]_vars
    /\ []ScenarioTiming

\* The scenario has played one whole pass: four events, the last 0.5 s
\* after the one before.
C7_Witness ==
    Scenario /\ passDone["s1"] = 4 /\ trigGap["s1"] = 16

-----------------------------------------------------------------------------
(* The effects chain, as the specification describes it. *)

StageOrder == <<"compression", "eq", "delay", "reverb", "pan", "volume">>

StageNodes(st) ==
    CASE st = "compression" -> {"compressor"}
      [] st = "eq" -> {"lowShelf", "mid", "highShelf"}
      [] st = "delay" -> {"delayNode", "delayFeedback", "delayWet", "delayDry",
                          "delayMix"}
      [] st = "reverb" -> {"convolver", "reverbWet", "reverbDry", "reverbMix"}
      [] st = "pan" -> {"panner"}
      [] st = "volume" -> {"volumeGain"}

\* The nodes of a stage that take the previous stage's output.
StageEntry(st) ==
    CASE st = "compression" -> {"compressor"}
      [] st = "eq" -> {"lowShelf"}
      [] st = "delay" -> {"delayNode", "delayDry"}
      [] st = "reverb" -> {"convolver", "reverbDry"}
      [] st = "pan" -> {"panner"}
      [] st = "volume" -> {"volumeGain"}

\* The node of a stage that feeds the next one.
StageExit(st) ==
    CASE st = "compression" -> "compressor"
      [] st = "eq" -> "highShelf"
      [] st = "delay" -> "delayMix"
      [] st = "reverb" -> "reverbMix"
      [] st = "pan" -> "panner"
      [] st = "volume" -> "volumeGain"

StageWiring(st) ==
    CASE st = "eq" -> {<<"lowShelf", "mid">>, <<"mid", "highShelf">>}
      [] st = "delay" -> {<<"delayNode", "delayFeedback">>,
                          <<"delayFeedback", "delayNode">>,
                          <<"delayNode", "delayWet">>,
                          <<"delayWet", "delayMix">>, <<"delayDry", "delayMix">>}
      [] st = "reverb" -> {<<"convolver", "reverbWet">>,
                           <<"reverbWet", "reverbMix">>,
                           <<"reverbDry", "reverbMix">>}
      [] OTHER -> {}

NodeType(n) ==
    CASE n = "source" -> "BufferSource"
      [] n = "compressor" -> "DynamicsCompressor"
      [] n \in {"lowShelf", "mid", "highShelf"} -> "BiquadFilter"
      [] n = "delayNode" -> "Delay"
      [] n = "convolver" -> "Convolver"
      [] n = "panner" -> "StereoPanner"
      [] OTHER -> "Gain"

\* The stages a record asks for, in the fixed order.
Wanted(fx) ==
    LET On(st) == CASE st = "compression" -> fx.compression.enabled
                    [] st = "eq" -> fx.eq.enabled
                    [] st = "delay" -> fx.delay.enabled
                    [] st = "reverb" -> fx.reverb.enabled
                    [] OTHER -> TRUE
    IN SelectSeq(StageOrder, On)

\* g is the chain of the wanted stages and of nothing else.
IsChainOf(g, fx) ==
    LET w == Wanted(fx)
        Prev(i) == IF i = 1 THEN "source" ELSE StageExit(w[i - 1])
    IN /\ DOMAIN g.nodes = {"source"} \cup UNION {StageNodes(w[i]) : i \in DOMAIN w}
       /\ \A n \in DOMAIN g.nodes : g.nodes[n].type = NodeType(n)
       /\ g.edges = UNION {StageWiring(w[i]) \cup
                             {<<Prev(i), e>> : e \in StageEntry(w[i])} :
                           i \in DOMAIN w}
       /\ g.cur = "volumeGain"
       /\ fx.eq.enabled =>
            /\ g.nodes["lowShelf"].params.kind = "lowshelf"
            /\ g.nodes["mid"].params.kind = "peaking"
            /\ g.nodes["highShelf"].params.kind = "highshelf"

AllDisabled(fx) ==
    /\ ~fx.compression.enabled /\ ~fx.eq.enabled
    /\ ~fx.delay.enabled /\ ~fx.reverb.enabled

\* The chains built so far.
Built ==
    (IF chain.samplesBuilt THEN {chain.samples} ELSE {})
        \cup (IF chain.sequenceBuilt THEN {chain.sequence} ELSE {})

BothBuilt == chain.samplesBuilt /\ chain.sequenceBuilt

\* C8: the chain holds exactly the enabled stages among compression, EQ
\* (low shelf, peaking, high shelf), delay and reverb, in that order, then
\* pan, then volume; a disabled stage adds no node, its neighbours are
\* connected directly; both pages build the same chain from one record.
C8_ChainIsEnabledStagesInOrder ==
    /\ \A g \in Built : IsChainOf(g, effects)
    /\ BothBuilt => chain.samples = chain.sequence

\* EQ and reverb on, compression and delay off, built by both pages: the
\* source feeds the EQ and the EQ feeds the reverb.
C8_Witness ==
    /\ BothBuilt
    /\ effects.eq.enabled /\ effects.reverb.enabled
    /\ ~effects.compression.enabled /\ ~effects.delay.enabled
    /\ <<"source", "lowShelf">> \in chain.sequence.edges
    /\ <<"highShelf", "convolver">> \in chain.sequence.edges

\* C9 as stated: with the four flags off the chain's output is its input.
C9_AllDisabledIsIdentity ==
    AllDisabled(effects) => \A g \in Built : Output(g, channels) = Input

\* C9: with the four flags off the chain is the source, the panner and the
\* volume gain and nothing else; its output is its input when moreover the
\* volume is 1, the pan is 0 and the source is stereo.
C9_AllDisabledIsPanThenVolume ==
    AllDisabled(effects) =>
        \A g \in Built :
            /\ DOMAIN g.nodes = {"source", "panner", "volumeGain"}
            /\ g.edges = {<<"source", "panner">>, <<"panner", "volumeGain">>}
            /\ g.nodes["panner"].params.pan = effects.pan
            /\ g.nodes["volumeGain"].params.gain = effects.volume
            /\ (effects.volume = 1000 /\ effects.pan = 0 /\ channels = 2)
                    => Output(g, channels) = Input

\* Both pages built the chain of a record with the four flags off, volume
\* 1 and pan 0, for a stereo source.
C9_Witness ==
    /\ BothBuilt /\ AllDisabled(effects)
    /\ effects.volume = 1000 /\ effects.pan = 0 /\ channels = 2
    /\ Output(chain.samples, channels) = Input

\* The wet / dry split of one stage of g: proc is the processing node, wet
\* and dry the two gains, mix the node that sums them.
SplitIs(g, proc, wet, dry, mix, amount) ==
    /\ g.nodes[wet].params.gain = amount
    /\ g.nodes[dry].params.gain = 1000 - amount
    /\ Preds(g, wet) = {proc}
    /\ Preds(g, mix) = {wet, dry}
    /\ Cardinality(Preds(g, dry)) = 1
    /\ Preds(g, dry) \subseteq Preds(g, proc)
    /\ \A ch \in {1, 2} :
         LET pre == CHOOSE p \in Preds(g, dry) : TRUE
         IN /\ amount = 0 => SignalAt(g, mix, ch) = SignalAt(g, pre, ch)
            /\ amount = 1000 => SignalAt(g, mix, ch) = SignalAt(g, proc, ch)

\* C10: the reverb puts gain wet on the convolved path and 1 - wet on its
\* input and sums both in one node: at wet 0 the stage gives its input, at
\* wet 1 the convolved path; the delay splits the delayed signal and the
\* signal before the delay the same way.
C10_WetDrySplit ==
    \A g \in Built :
        /\ effects.reverb.enabled =>
             SplitIs(g, "convolver", "reverbWet", "reverbDry", "reverbMix",
                     effects.reverb.wet)
        /\ effects.delay.enabled =>
             SplitIs(g, "delayNode", "delayWet", "delayDry", "delayMix",
                     effects.delay.wet)

\* Both pages built a chain with the reverb fully wet and the delay fully
\* dry: the reverb's output is the convolved path.
C10_Witness ==
    /\ BothBuilt
    /\ effects.reverb.enabled /\ effects.reverb.wet = 1000
    /\ effects.delay.enabled /\ effects.delay.wet = 0
    /\ \A g \in Built :
         SignalAt(g, "reverbMix", 2) = SignalAt(g, "convolver", 2)

-----------------------------------------------------------------------------
(* Parameter ranges *)

Within(v, lo, hi) == v >= lo /\ v <= hi

\* The documented range of every gain the chain applies that the audio
\* node itself does not limit: volume [0, 2], delay feedback [0, 0.9], the
\* wet levels and their dry complements [0, 1].
GainsInRange(g) ==
    /\ Within(g.nodes["volumeGain"].params.gain, 0, 2000)
    /\ "delayFeedback" \in DOMAIN g.nodes =>
         /\ Within(g.nodes["delayFeedback"].params.gain, 0, 900)
         /\ Within(g.nodes["delayWet"].params.gain, 0, 1000)
         /\ Within(g.nodes["delayDry"].params.gain, 0, 1000)
    /\ "reverbWet" \in DOMAIN g.nodes =>
         /\ Within(g.nodes["reverbWet"].params.gain, 0, 1000)
         /\ Within(g.nodes["reverbDry"].params.gain, 0, 1000)

\* C11: every parameter buildEffectsChain applies lies inside its
\* documented range, whatever record reached it: restored from
\* localStorage, loaded from an instrument or imported from a file.
C11_AppliedParametersInRange ==
    chain.samplesBuilt => GainsInRange(chain.samples)

-----------------------------------------------------------------------------
(* The edit session *)

Loaded == audioBuffer # NoBuffer

\* C12: with a buffer loaded, 0 <= startTime < endTime <= duration of the
\* working buffer.
C12_TrimWithinBuffer ==
    Loaded =>
        /\ 0 <= startTime /\ startTime < endTime
        /\ endTime <= Duration(audioBuffer)

\* C13: the session volume lies in [0, 2].
C13_VolumeInRange == volume >= 0 /\ volume <= 2000

\* C14: with a buffer loaded, each fade is at least 0 and at most half of
\* the trimmed length.
C14_FadesWithinHalfTrim ==
    Loaded =>
        /\ fadeInDuration >= 0 /\ 2 * fadeInDuration <= endTime - startTime
        /\ fadeOutDuration >= 0 /\ 2 * fadeOutDuration <= endTime - startTime

\* The largest absolute value among the samples of channel 0 that are
\* numbers, 0 when there is none.
ChannelZeroPeak ==
    LET mags == {Abs(x) : x \in Range(audioBuffer[1]) \ {NaN}} \cup {0}
    IN CHOOSE m \in mags : \A n \in mags : n <= m

\* A step of handleNormalize on a loaded buffer.
NormalizeStep ==
    Loaded /\ settings' # settings /\ lastOp'.op = "normalize"

\* C15: normalize sets the volume to 1 / peak, peak the largest absolute
\* sample of channel 0 (to the thousandth: volume * peak <= 1 < (volume +
\* 0.001) * peak); with a peak of 0 the volume stays; with a peak of 0.5
\* the volume becomes 2.0.  The other seven parameters, the buffer, the
\* clipboard, the selection and the stored originals stay.
C15_NormalizeSetsInversePeak ==
    [][NormalizeStep =>
         /\ ChannelZeroPeak > 0 =>
              /\ volume' * ChannelZeroPeak <= 1000 * 1000
              /\ (volume' + 1) * ChannelZeroPeak > 1000 * 1000
         /\ ChannelZeroPeak = 0 => volume' = volume
         /\ ChannelZeroPeak = 500 => volume' = 2000
         /\ UNCHANGED <<audioBuffer, clipboard, startTime, endTime,
                        pitchSemitones, pitchCents, fadeInDuration,
                        fadeOutDuration, timeStretch, selectionVars,
                        originalValues, draggingMarker>>]_vars

\* normalize ran on a buffer whose peak, -0.5, is in channel 0: the volume
\* is 2.0.
C15_Witness ==
    /\ Loaded /\ lastOp = Done("normalize")
    /\ ChannelZeroPeak = 500 /\ volume = 2000

\* The frames a selection covers: from the frame of its start up to, not
\* including, the frame of its end.
FirstFrame == SelStart \div TicksPerSample
EndFrame == SelEnd \div TicksPerSample

\* A step of handleCut, handleCopy or handlePaste.
CutStep == bufferOps' # bufferOps /\ lastOp'.op = "cut"
CopyStep == bufferOps' # bufferOps /\ lastOp'.op = "copy"
PasteStep == bufferOps' # bufferOps /\ lastOp'.op = "paste"

\* C16: a cut with a selection puts exactly the selected frames into the
\* clipboard and leaves the buffer without them, channel by channel: the
\* frames before the region stay, the frames after it move down by its
\* length, the buffer is shorter by that length and the clipboard is
\* that long.
C16_CutRemovesRegion ==
    [][(CutStep /\ Loaded /\ ~NoSelection) =>
         /\ Channels(clipboard') = Channels(audioBuffer)
         /\ Channels(audioBuffer') = Channels(audioBuffer)
         /\ Length(clipboard') = EndFrame - FirstFrame
         /\ Length(audioBuffer') = Length(audioBuffer) - (EndFrame - FirstFrame)
         /\ \A c \in 1..Channels(audioBuffer) :
              /\ clipboard'[c] = SubSeq(audioBuffer[c], FirstFrame + 1, EndFrame)
              /\ audioBuffer'[c] =
                   SubSeq(audioBuffer[c], 1, FirstFrame)
                     \o SubSeq(audioBuffer[c], EndFrame + 1, Length(audioBuffer))]_vars

\* The whole frames in the length of the selection.
SelectedFrames == (SelEnd - SelStart) \div TicksPerSample

PasteFrame == (IF NoSelection THEN endTime ELSE SelStart) \div TicksPerSample

\* C18: a paste with a clipboard inserts the whole clipboard at the start
\* of the selection (its smaller endpoint), or at the trim end when there
\* is no selection: in every channel the frames before that position stay
\* where they are, the clipboard follows, the frames from that position on
\* follow the clipboard (so the position lies within the buffer); the
\* clipboard itself is unchanged.
C18_PasteInsertsAtSelectionStart ==
    [][(PasteStep /\ Loaded /\ clipboard # NoBuffer) =>
         /\ clipboard' = clipboard
         /\ PasteFrame <= Length(audioBuffer)
         /\ Channels(audioBuffer') = Channels(audioBuffer)
         /\ \A c \in 1..Channels(audioBuffer) :
              audioBuffer'[c] =
                SubSeq(audioBuffer[c], 1, PasteFrame)
                  \o clipboard[c]
                  \o SubSeq(audioBuffer[c], PasteFrame + 1, Length(audioBuffer))]_vars

\* C19: a paste that directly follows a completed cut, no other operation
\* in between, gives back the buffer as it was before the cut.
C19_CutThenPasteRestores ==
    [][(PasteStep /\ Loaded /\ lastOp.op = "cut" /\ lastOp.result = "done") =>
         audioBuffer' = lastOp.before]_vars

\* What a rejected cut, copy or paste must leave alone.
EditorContent == <<audioBuffer, clipboard, selectionStart, selectionEnd,
                   sessionParams>>

\* C20: a cut or copy without a selection, and a paste without a
\* clipboard, is rejected: the buffer, the clipboard, the selection and the
\* eight parameters stay as they are.  A cut or copy that is not rejected
\* has a selection, and the selection covers at least one frame.
C20_DegenerateRequestsRejected ==
    [][/\ ((CutStep \/ CopyStep) /\ NoSelection) =>
            lastOp'.result = "rejected" /\ UNCHANGED EditorContent
       /\ (PasteStep /\ clipboard = NoBuffer) =>
            lastOp'.result = "rejected" /\ UNCHANGED EditorContent
       /\ ((CutStep \/ CopyStep \/ PasteStep) /\ lastOp'.result = "rejected") =>
            UNCHANGED EditorContent
       /\ ((CutStep \/ CopyStep) /\ lastOp'.result # "rejected") =>
            /\ Loaded /\ ~NoSelection
            /\ SelectedFrames >= 1
            /\ EndFrame > FirstFrame]_vars

\* A cut was rejected for want of a selection while the clipboard held the
\* frames of an earlier cut or copy.
C20_Witness ==
    /\ Loaded /\ lastOp = Rejected("cut")
    /\ NoSelection /\ clipboard # NoBuffer

\* A step of handleRevert, and the parameters the stored baseline names.
RevertStep == settings' # settings /\ lastOp'.op = "revert"
Baseline ==
    <<originalValues[1].startTime, originalValues[1].endTime,
      originalValues[1].volume, originalValues[1].pitchSemitones,
      originalValues[1].pitchCents, originalValues[1].fadeInDuration,
      originalValues[1].fadeOutDuration, originalValues[1].timeStretch>>

\* C21: the baseline is stored when the buffer is loaded (start 0, end the
\* duration of the buffer as loaded, volume 1, no pitch shift, no fades,
\* stretch 1) and no later step changes it; a revert sets the eight
\* parameters to the baseline and leaves the working buffer, spliced or
\* not, and the clipboard as they are.
C21_RevertRestoresBaseline ==
    [][/\ originalValues # <<>> => originalValues' = originalValues
       /\ (originalValues = <<>> /\ originalValues' # <<>>) =>
            originalValues' = <<[startTime |-> 0,
                                 endTime |-> Duration(audioBuffer'),
                                 volume |-> 1000, pitchSemitones |-> 0,
                                 pitchCents |-> 0, fadeInDuration |-> 0,
                                 fadeOutDuration |-> 0, timeStretch |-> 1000]>>
       /\ (RevertStep /\ originalValues # <<>>) =>
            /\ sessionParams' = Baseline
            /\ UNCHANGED <<audioBuffer, clipboard>>]_vars

\* A revert after a cut: the trim end is back at the loaded duration, the
\* buffer is still the shortened one and the clipboard still holds the cut.
C21_Witness ==
    /\ Loaded /\ lastOp = Done("revert")
    /\ sessionParams = Baseline
    /\ clipboard # NoBuffer
    /\ Duration(audioBuffer) < endTime

\* A parameter changed; a timer ran out and called handleAutoSave; the one
\* timer a change leaves pending: fresh, for the parameters as they now are.
ParamChange == sessionParams' # sessionParams
TimerFired ==
    /\ \E t \in timers : timers' = timers \ {t}
    /\ lastOp'.op = "autosave" /\ isOpen' = isOpen
FreshTimerSet ==
    /\ Cardinality(timers') = 1
    /\ \A t \in timers' :
         /\ t.left = AutoSaveDelay
         /\ t.id = autoSaveTimeoutRef'
         /\ t.closure.params = sessionParams'

\* C22 as stated: every change of one of the eight parameters leaves
\* exactly one timer pending, a new one of 1000 ms (the one pending before
\* is cancelled); a timer only runs out 1000 ms or more after the last
\* parameter change; never is more than one timer pending.
C22_EveryChangeArmsTimer ==
    [][/\ ParamChange => FreshTimerSet
       /\ Cardinality(timers') <= 1
       /\ TimerFired => idle >= AutoSaveDelay]_vars

\* C22, amended: the same for every change made once the buffer is loaded,
\* the load included.
C22_ChangeWithBufferArmsTimer ==
    [][/\ (ParamChange /\ audioBuffer' # NoBuffer) => FreshTimerSet
       /\ Cardinality(timers') <= 1
       /\ TimerFired => idle >= AutoSaveDelay]_vars

\* A setting was changed half a second or more after the load and before
\* the timer of the load ran out: one timer is pending, with the full
\* delay, and nothing has been rendered.
C22_Witness ==
    /\ Loaded /\ lastOp = Done("setting") /\ idle = 0
    /\ sessionParams # Baseline
    /\ Cardinality(timers) = 1
    /\ \A t \in timers : t.left = AutoSaveDelay /\ t.closure.params = sessionParams
    /\ saved = <<>> /\ rendering = {} /\ stored = <<>>

\* Nothing is left to happen on its own: no timer is pending and no render
\* is in flight.
Settled == timers = {} /\ rendering = {}

\* C23: when the editor is open with its buffer, every timer has run out,
\* no render is in flight and the last handleAutoSave call was turned away
\* because a render was in flight when its timer was set, then what onSave
\* last received was rendered from the parameters as they are now.
C23_LatestParametersPersisted ==
    (isOpen /\ Loaded /\ Settled /\ lastOp = Rejected("autosave")) =>
        /\ saved # <<>>
        /\ saved[1].params = sessionParams

\* A step of Close, of handleTrim, and a render of the parameters as they
\* are: in flight or handed to onSave.
CloseStep == isOpen /\ ~isOpen'
TrimStep == lastOp'.op = "trim" /\ lastOp'.result = "alerted"
CurrentRendered ==
    \/ \E c \in rendering' : c.params = sessionParams'
    \/ saved' # <<>> /\ saved'[1].params = sessionParams'

\* C24: when the editor is closed while a timer is pending, the render it
\* was to start is started or done by the time the editor is gone.
C24_CloseFlushesPendingRender ==
    [][(CloseStep /\ Loaded /\ timers # {}) => CurrentRendered]_vars

\* C25: pressing Trim with a buffer renders the current trim at once: when
\* the handler returns, a render of the current parameters is in flight or
\* has been handed to onSave.
C25_TrimRendersImmediately ==
    [][(TrimStep /\ Loaded) => CurrentRendered]_vars

\* C26: the buffer an auto-save render hands to onSave is, within one
\* frame, (endTime - startTime) / timeStretch * sampleRate frames long
\* (times in ticks, the stretch in thousandths).
C26_RenderedLengthFollowsStretch ==
    saved # <<>> =>
        LET p == saved[1].params
        IN Abs(saved[1].length * TicksPerSample * p[8] - (p[2] - p[1]) * 1000)
             <= TicksPerSample * p[8]

\* A handleAutoSave call ends in its catch: the try block threw before the
\* render started, or startRendering rejected.
RenderFailure ==
    /\ lastOp'.op = "autosave" /\ lastOp'.result = "logged"
    /\ \/ \E c \in rendering : rendering' = rendering \ {c}
       \/ isOpen' = isOpen /\ \E t \in timers : timers' = timers \ {t}

\* C30: a failed auto-save render hands nothing to onSave and stores
\* nothing, leaves the eight parameters, the buffer and the clipboard as
\* they are, and clears isSaving; whenever no render is in flight isSaving
\* is false, so the timer a later change sets is not turned away.
C30_RenderFailureOnlyLogged ==
    [][/\ RenderFailure =>
            /\ UNCHANGED <<saved, stored, listed>>
            /\ UNCHANGED <<sessionParams, audioBuffer, clipboard>>
            /\ isSaving' = FALSE
       /\ rendering' = {} => isSaving' = FALSE
       /\ (ParamChange /\ rendering = {} /\ audioBuffer' # NoBuffer) =>
            \A t \in timers' : ~t.closure.isSaving]_vars

\* startRendering has just rejected: nothing was ever handed to onSave,
\* the flag is clear, the editor is still open with its buffer.
C30_Witness ==
    /\ isOpen /\ Loaded
    /\ lastOp = [op |-> "autosave", result |-> "logged"]
    /\ saved = <<>> /\ stored = <<>> /\ rendering = {}
    /\ isSaving = FALSE

\* handleSaveEditedSample ran for a blob that decodeAudioData rejected, and
\* saveSample took the record.
DecodeFailedSave ==
    /\ \E c \in rendering : rendering' = rendering \ {c}
    /\ lastOp'.op = "autosave" /\ lastOp'.result = "warned"

\* C29: when the edited blob does not decode, the save goes through all
\* the same: the record written holds the blob onSave received with a
\* duration of one second, the samples list is reloaded with it, and the
\* handler ends with a console warning, the editor's state untouched.
C29_DecodeFailureSavesWithDefault ==
    [][DecodeFailedSave =>
         /\ saved' # <<>>
         /\ stored' = <<[blob |-> saved'[1], duration |-> DefaultDuration]>>
         /\ listed' = stored'
         /\ UNCHANGED <<sessionParams, audioBuffer, clipboard, isOpen>>]_vars

\* A save whose blob did not decode: the record says one second, the blob
\* is shorter, the list shows the record.
C29_Witness ==
    /\ lastOp = [op |-> "autosave", result |-> "warned"]
    /\ stored # <<>> /\ listed = stored
    /\ stored[1].duration = DefaultDuration
    /\ stored[1].blob.length * TicksPerSample < DefaultDuration

\* Reading a blob: the unsigned 16 and 32 bit little-endian numbers and the
\* signed 16 bit number at a byte offset counted from 0, and four
\* characters.
U16At(bytes, off) == bytes[off + 1] + 256 * bytes[off + 2]
U32At(bytes, off) == U16At(bytes, off) + 65536 * U16At(bytes, off + 2)
S16At(bytes, off) ==
    IF U16At(bytes, off) >= 32768 THEN U16At(bytes, off) - 65536
    ELSE U16At(bytes, off)
TagAt(bytes, off) == SubSeq(bytes, off + 1, off + 4)
Sign(x) == IF x = NaN \/ x = 0 THEN 0 ELSE IF x < 0 THEN -1 ELSE 1

\* C27: for a buffer of sampleCount frames and channelCount channels the
\* blob of either encoder is 44 + sampleCount * channelCount * 2 bytes:
\* "RIFF", 36 + the data length, "WAVE", "fmt ", 16, format 1, the channel
\* count, the sample rate, byte rate = sample rate * block align, block
\* align = channelCount * 2, 16 bits, "data", the data length =
\* sampleCount * channelCount * 2; then one signed 16-bit little-endian
\* number per sample, frame by frame with the channels of a frame next to
\* each other (the number for a sample is 0 or has the sample's sign, is 0
\* for 0 and NaN and full scale for +-1 and beyond), each in
\* [-32768, 32767].
C27_WavLayout ==
    wavOut # <<>> =>
        LET buf == wavIn[1].buffer
            sampleCount == Length(buf)
            channelCount == Channels(buf)
            sampleRate == wavIn[1].sampleRate
            dataLength == sampleCount * channelCount * 2
        IN /\ Len(wavOut) = 44 + dataLength
           /\ \A i \in 1..Len(wavOut) : wavOut[i] \in 0..255
           /\ TagAt(wavOut, 0) = <<82, 73, 70, 70>>
           /\ U32At(wavOut, 4) = 36 + dataLength
           /\ TagAt(wavOut, 8) = <<87, 65, 86, 69>>
           /\ TagAt(wavOut, 12) = <<102, 109, 116, 32>>
           /\ U32At(wavOut, 16) = 16
           /\ U16At(wavOut, 20) = 1
           /\ U16At(wavOut, 22) = channelCount
           /\ U32At(wavOut, 24) = sampleRate
           /\ U32At(wavOut, 28) = sampleRate * U16At(wavOut, 32)
           /\ U16At(wavOut, 32) = channelCount * 2
           /\ U16At(wavOut, 34) = 16
           /\ TagAt(wavOut, 36) = <<100, 97, 116, 97>>
           /\ U32At(wavOut, 40) = dataLength
           /\ \A i \in 0..(sampleCount - 1) : \A c \in 0..(channelCount - 1) :
                LET x == S16At(wavOut, 44 + 2 * (i * channelCount + c))
                    s == buf[c + 1][i + 1]
                IN /\ x \in -32768..32767
                   /\ Sign(x) = 0 \/ Sign(x) = Sign(s)
                   /\ Sign(s) = 0 => x = 0
                   /\ (s # NaN /\ s >= WavUnit) => x = 32767
                   /\ (s # NaN /\ s <= -WavUnit) => x <= -32767

\* An encoder has returned the blob of a stereo buffer of the greatest
\* length whose channels differ in sign in every frame: the share page's
\* blob starts with -32768, the editor's with 32767.
C27_Witness ==
    /\ wavOut # <<>> /\ Channels(wavIn[1].buffer) = 2
    /\ Length(wavIn[1].buffer) = MaxWavFrames
    /\ \A i \in 1..MaxWavFrames :
         Sign(wavIn[1].buffer[1][i]) = -Sign(wavIn[1].buffer[2][i])
         /\ Sign(wavIn[1].buffer[1][i]) # 0
    /\ \/ wavIn[1].encoder = "share" /\ S16At(wavOut, 44) = -32768
       \/ wavIn[1].encoder = "editor" /\ S16At(wavOut, 44) = 32767

\* What the last handled message was, read from its bytes.
LastIsNoteOn ==
    /\ Len(midiCalls.data) >= 3
    /\ midiCalls.data[1] \div 16 = 9
    /\ midiCalls.data[3] > 0
LastIsNoteOff ==
    /\ Len(midiCalls.data) >= 3
    /\ \/ midiCalls.data[1] \div 16 = 8
       \/ midiCalls.data[1] \div 16 = 9 /\ midiCalls.data[3] = 0
\* The note-on was taken by listenForNote instead of being dispatched.
LastCaptured == midiCalls.learning /\ LastIsNoteOn

\* C28: every call handleMIDIMessage makes to a registered callback carries
\* velocity 127 and the note of the message, whatever the velocity byte was.
\* A note-on or note-off message that is dispatched reaches every registered
\* callback exactly once, as a note-on only when the status is 0x9n and the
\* velocity byte is above 0, so a 0x9n message with velocity 0 arrives as a
\* note-off.  A message that is neither, or has fewer than 3 bytes, reaches
\* no callback.  The one note message that is not dispatched is the note-on
\* that arrives while listenForNote is waiting: it goes to the learn
\* callback alone.
C28_MidiDispatch ==
    midiCalls.handled =>
        /\ \A c \in midiCalls.calls :
              /\ c.velocity = 127
              /\ c.callback \in midiCalls.registered
              /\ c.note = midiCalls.data[2]
              /\ c.noteOn = LastIsNoteOn
        /\ (~LastIsNoteOn /\ ~LastIsNoteOff) =>
              midiCalls.calls = {} /\ midiCalls.learned = Null
        /\ ((LastIsNoteOn \/ LastIsNoteOff) /\ ~LastCaptured) =>
              /\ \A cb \in midiCalls.registered :
                    Cardinality({c \in midiCalls.calls : c.callback = cb}) = 1
              /\ midiCalls.learned = Null
        /\ LastCaptured =>
              midiCalls.calls = {} /\ midiCalls.learned = midiCalls.data[2]

\* A 0x99 message with velocity 0 was dispatched to two registered
\* callbacks.
C28_Witness ==
    /\ midiCalls.handled
    /\ midiCalls.data = <<153, 72, 0>>
    /\ Cardinality(midiCalls.registered) = 2
    /\ Cardinality(midiCalls.calls) = 2

\* The service is waiting for the note listenForNote asked for.
Learning == isLearningMode /\ learnCallback # Null

\* C38: learning is one-shot.  listenForNote switches learning on.  The
\* next note-on is handed to the learn callback with its note and to no
\* registered callback, and learning is off afterwards with no callback
\* kept.  Any other message handled while learning leaves learning on, and
\* a note-off among them is still dispatched to the registered callbacks.
\* With learning off, every note-on and note-off reaches every registered
\* callback and the learn callback gets nothing.  cancelLearnMode leaves
\* learning off with no callback pending.
C38_LearnIsOneShot ==
    [][ /\ listenForNote => Learning'
        /\ cancelLearnMode => (~isLearningMode' /\ learnCallback' = Null)
        /\ \A data \in MidiMessages :
              handleMIDIMessage(data) =>
                  LET noteOn == /\ Len(data) >= 3
                                /\ data[1] \div 16 = 9
                                /\ data[3] > 0
                      noteOff == /\ Len(data) >= 3
                                 /\ \/ data[1] \div 16 = 8
                                    \/ data[1] \div 16 = 9 /\ data[3] = 0
                      reached == {c.callback : c \in midiCalls'.calls}
                  IN
                  /\ (Learning /\ noteOn) =>
                        /\ midiCalls'.learned = data[2]
                        /\ reached = {}
                        /\ ~isLearningMode' /\ learnCallback' = Null
                  /\ (Learning /\ ~noteOn) =>
                        /\ Learning' /\ learnCallback' = learnCallback
                        /\ midiCalls'.learned = Null
                  /\ (~Learning \/ ~noteOn) =>
                        /\ isLearningMode' = isLearningMode
                        /\ midiCalls'.learned = Null
                        /\ reached =
                              IF noteOn \/ noteOff THEN noteCallbacks ELSE {}
      ]_vars

\* With a callback registered, a note-on was taken by the learn callback
\* and learning is off again.
C38_Witness ==
    /\ midiCalls.handled /\ midiCalls.learning
    /\ midiCalls.learned = 60
    /\ midiCalls.registered # {} /\ midiCalls.calls = {}
    /\ ~isLearningMode /\ learnCallback = Null

\* The samples a note is mapped to, and the notes mapped to a sample.
SamplesOfNote(projectId, midiNote) ==
    {localStorage[projectId][i].sampleId :
        i \in {k \in 1..Len(localStorage[projectId]) :
                  localStorage[projectId][k].midiNote = midiNote}}
NotesOfSample(projectId, sampleId) ==
    {localStorage[projectId][i].midiNote :
        i \in {k \in 1..Len(localStorage[projectId]) :
                  localStorage[projectId][k].sampleId = sampleId}}

\* C39: in every project each stored note occurs in one mapping only, and
\* right after addMapping(project, sample, note) getSampleForNote(project,
\* note) is that sample and getNoteForSample(project, sample) is a note
\* mapped to that sample.
C39_MappingsRoundTrip ==
    /\ \A p \in MapProjects :
          \A i, j \in 1..Len(localStorage[p]) :
              localStorage[p][i].midiNote = localStorage[p][j].midiNote
                  => i = j
    /\ mapOp.op = "add" =>
          /\ getSampleForNote(mapOp.projectId, mapOp.midiNote) = mapOp.sampleId
          /\ getNoteForSample(mapOp.projectId, mapOp.sampleId)
                 \in NotesOfSample(mapOp.projectId, mapOp.sampleId)

\* C36: a paste with a clipboard, into a selection that has an endpoint at
\* time 0, puts the clipboard in front of the buffer: in every channel the
\* result is the clipboard followed by the buffer as it was.
C36_PasteAtLeftEdge ==
    [][(/\ PasteStep /\ Loaded /\ clipboard # NoBuffer
        /\ ~NoSelection
        /\ (selectionStart = 0 \/ selectionEnd = 0)) =>
         /\ Channels(audioBuffer') = Channels(audioBuffer)
         /\ \A c \in 1..Channels(audioBuffer) :
              audioBuffer'[c] = clipboard[c] \o audioBuffer[c]]_vars

\* C35: as long as the user has made no edit in the session (no slider,
\* trim input, normalize, revert or trim call, no cut, copy or paste, no
\* press on the waveform), nothing is being rendered, onSave has not been
\* called and nothing has been stored.
C35_NoSaveWithoutEdit ==
    (settings = 0 /\ bufferOps = 0 /\ gestures = 0) =>
        /\ rendering = {}
        /\ saved = <<>>
        /\ stored = <<>>

\* handleSaveEditedSample has written the edited blob to the store.
CommitStep ==
    /\ rendering' # rendering
    /\ lastOp'.op = "autosave" /\ lastOp'.result \in {"done", "warned"}

\* C34: committing an edited render leaves the id, the project, the name
\* and the MIDI note of the stored sample as they were.
C34_CommitKeepsIdentity ==
    [][CommitStep =>
         /\ dbSample'.id = dbSample.id
         /\ dbSample'.projectId = dbSample.projectId
         /\ dbSample'.name = dbSample.name
         /\ dbSample'.midiNote = dbSample.midiNote]_vars

\* C33: while the sequencer is playing with no restart timer pending and no
\* startSequencer call waiting for Tone.start(), every armed sequence has
\* stepCount steps and runs at the selected subdivision.
C33_RunningScheduleIsCurrent ==
    (/\ mounted /\ isPlaying /\ transport.state = "started"
     /\ restartTimers = <<>> /\ pendingStarts = <<>>) =>
        \A i \in Armed :
            /\ sequences[i].steps = stepCount
            /\ sequences[i].subdivision = subdivision

\* A panel update has been made; panelOp' is the sample it was addressed
\* to.
PanelUpdate == fxUpdates' # fxUpdates

\* C31: a panel update addressed to one sample leaves every other sample
\* as it was: a sample without settings stays without, a sample with
\* settings keeps every value of them, nested ones included.  The values
\* of DEFAULT_EFFECTS never change, and a settings object created lazily
\* has exactly those values.
C31_SettingsNotShared ==
    [][PanelUpdate =>
         /\ \A t \in PanelSamples \ {panelOp'} :
               /\ (t \in DOMAIN panelEffects') = (t \in DOMAIN panelEffects)
               /\ t \in DOMAIN panelEffects =>
                     Settings(fxHeap', panelEffects'[t])
                         = Settings(fxHeap, panelEffects[t])
         /\ Settings(fxHeap', DefaultObject) = DEFAULT_EFFECTS
         /\ panelOp' \in DOMAIN panelEffects'
         /\ panelOp' \notin DOMAIN panelEffects =>
               \E e \in {<<>>} \cup TopEdits \cup NestedEdits :
                   Settings(fxHeap', panelEffects'[panelOp']) =
                       IF e = <<>> THEN DEFAULT_EFFECTS
                       ELSE IF Len(e) = 2
                       THEN [DEFAULT_EFFECTS EXCEPT ![e[1]] = e[2]]
                       ELSE [DEFAULT_EFFECTS EXCEPT ![e[1]][e[2]] = e[3]]
       ]_vars

\* On the sequencer page, where both samples started from a copy of the
\* defaults, the reverb of s1 has been switched on and s2 still holds the
\* default reverb.
C31_Witness ==
    /\ panelPage = "sequence" /\ panelOp = "s1"
    /\ "s1" \in DOMAIN panelEffects /\ "s2" \in DOMAIN panelEffects
    /\ fxHeap[panelEffects["s1"].reverb].enabled
    /\ ~fxHeap[panelEffects["s2"].reverb].enabled
    /\ panelEffects["s2"].reverb = DefaultObject.reverb

\* C32: the metronome's bpm is an integer from 20 to 300 after any sequence
\* of edits of the BPM field (empty, non-numeric and out-of-range text
\* included) and of tap-tempo presses at any spacing, and an input that is
\* rejected leaves bpm as it was.
C32_BpmStaysInRange ==
    /\ metBpm \in 20..300
    /\ [][/\ metBpm' \in 20..300
          /\ \A value \in BpmTexts :
                 (handleBpmChange(value)
                     /\ (value = <<>> \/ parseInt(value) \notin 20..300))
                 => metBpm' = metBpm
          /\ \A gap \in TapGaps :
                 (handleTapTempo(gap)
                     /\ (Len(tapTimes') < 2
                            \/ CalculatedBpm(tapTimes') \notin 20..300))
                 => metBpm' = metBpm]_vars

\* Four presses stand whose average spacing gives more than 300, and bpm is
\* the in-range value an earlier press or edit set.
C32_Witness ==
    /\ Len(tapTimes) = 4 /\ taps = MaxTaps
    /\ CalculatedBpm(tapTimes) > 300
    /\ metBpm \in 20..300 /\ metBpm \notin {120, 150, 90}

\* C37: at most one click interval is active, and while the metronome is
\* disabled or unmounted no interval is active and no click is played, for
\* every interleaving of toggles, BPM changes and the resolution of
\* audioContext.resume().
C37_NoClickWhileDisabled ==
    /\ Cardinality(intervals) <= 1
    /\ (~isEnabled \/ ~metMounted) => intervals = {}
    /\ metClick # "off"

====
